---- MODULE Spec2Model ----
(***************************************************************************)
(* Trail Tracker backend: emergency contacts, trips, location history and  *)
(* the SMS dispatcher, as implemented by routes/emergency-contacts.ts,     *)
(* routes/trips.ts, utils/sms.ts and the drizzle schema.                   *)
(*                                                                         *)
(* A request is handled in steps, one per awaited store statement or       *)
(* provider call.  The first step of every handler covers the route's      *)
(* schema validation, requireAuth and the handler's first query.           *)
(***************************************************************************)
EXTENDS Integers, Sequences, FiniteSets, TLC

(* ------------------------------ bounds --------------------------------- *)
MaxContacts == 2
MaxTrips == 2
MaxLocs == 2
MaxTime == 1
\* contacts created while requests arrive one at a time on one connection
SeqContacts == 1
\* trips one user has started before the trips are listed
MaxListed == 22
\* interval timers one component of the app creates
MaxTimers == 3

(* ------------------------------ domains -------------------------------- *)
Users == {"u1", "u2"}
NoSession == "anonymous"
Sessions == Users \cup {NoSession}

ContactIds == 1..MaxContacts
TripIds == 1..MaxTrips
Times == 0..MaxTime
NoTime == -1

\* a nullable text column holding NULL
Null == "<null>"

\* a coordinate is a decimal with 8 fractional digits: sign, integer part and
\* the fraction counted in 1e-8 units ("-74.0060" has frac 600000)
Dec(neg, int, frac) == [neg |-> neg, int |-> int, frac |-> frac]

\* the positions the client reports: where a trip starts, a later position
\* and the position of an emergency
StartCoords == [latitude |-> Dec(FALSE, 40, 71280000), longitude |-> Dec(TRUE, 74, 600000)]
LaterCoords == [latitude |-> Dec(FALSE, 40, 75800000), longitude |-> Dec(TRUE, 73, 98550000)]
SOSCoords == [latitude |-> Dec(FALSE, 40, 75000000), longitude |-> Dec(TRUE, 73, 99000000)]

Slots == {1, 2}

VARIABLES
    emergencyContacts,   \* rows of table emergency_contacts
    trips,               \* rows of table trips
    locationUpdates,     \* rows of table location_updates, in insertion order
    nextContactId,       \* fresh uuid for emergency_contacts.id
    nextTripId,          \* fresh uuid for trips.id
    nextLocId,           \* fresh uuid for location_updates.id
    now,                 \* latest reading of the wall clock (new Date(), defaultNow())
    req,                 \* per connection: the request being handled / its response
    home,                \* the mobile app's home screen (HomeScreen component)
    tripProvider         \* the mobile app's TripProvider component

store == <<emergencyContacts, trips, locationUpdates>>
ids == <<nextContactId, nextTripId, nextLocId>>
\* the mobile app
app == <<home, tripProvider>>
vars == <<emergencyContacts, trips, locationUpdates, nextContactId, nextTripId,
          nextLocId, now, req, home, tripProvider>>

(* ------------------------- request bookkeeping -------------------------- *)
NoBody == [fields |-> {}]

Idle ==
    [op |-> "none", pc |-> "idle", session |-> NoSession, id |-> 0,
     body |-> NoBody, found |-> <<>>, updated |-> <<>>, now |-> NoTime,
     sms |-> <<>>, status |-> 0, result |-> <<>>]

\* a request as it enters its handler
Incoming(op, session, id, body) ==
    [Idle EXCEPT !.op = op, !.session = session, !.id = id, !.body = body]

\* the handler goes on to its next awaited statement
Goto(r, pc) == [r EXCEPT !.pc = pc]

\* reply.status(code).send(payload) / return payload
Reply(r, code, payload) ==
    [r EXCEPT !.pc = "done", !.status = code, !.result = payload]

ErrorBody(msg) == <<[error |-> msg]>>

\* a connection is free when it holds no request and no unsent response
Free(s) == req[s].pc = "idle"

\* the response leaves; the connection can take the next request
Respond(s) ==
    /\ req[s].pc = "done"
    /\ req' = [req EXCEPT ![s] = Idle]
    /\ UNCHANGED <<store, ids, now>>
    /\ UNCHANGED app

(* --------------------------- schema validation -------------------------- *)
\* fastify validates body against the route schema before the handler runs
MissingRequired(body, required) == \E f \in required : f \notin body.fields

(* -------------------------------- auth ---------------------------------- *)
\* requireAuth resolves the session or answers 401 and returns null
requireAuth(session) == IF session \in Users THEN <<session>> ELSE <<>>

\* a JavaScript condition on a string | null | undefined value
TruthyUnlessNull(x) == x # Null
Truthy(x) == x \notin {Null, ""}

(* ------------------------------ queries --------------------------------- *)
\* emergencyContacts.findFirst(where id = id and userId = userId)
FindContactAnyOwner(id, userId) ==
    {c \in emergencyContacts : c.id = id}
FindContact(id, userId) ==
    {c \in emergencyContacts : c.id = id /\ c.userId = userId}

\* emergencyContacts.findMany(where userId = userId)
ContactsOfEveryone(userId) == emergencyContacts
ContactsOf(userId) == {c \in emergencyContacts : c.userId = userId}

\* trips.findFirst(where id = id and userId = userId, with emergencyContact)
WithContact(t) ==
    [trip |-> t,
     emergencyContact |->
        CHOOSE c \in emergencyContacts : c.id = t.emergencyContactId]
FindTripAnyOwner(id, userId) ==
    {WithContact(t) : t \in {x \in trips : x.id = id}}
FindTrip(id, userId) ==
    {WithContact(t) : t \in {x \in trips : x.id = id /\ x.userId = userId}}

\* findFirst yields the row or undefined; ids are primary keys, so at most
\* one row matches
AsRows(S) == IF S = {} THEN <<>> ELSE <<CHOOSE x \in S : TRUE>>

(* ------------------------------- clock ---------------------------------- *)
\* the readings a clock read may give: time has or has not moved on since the
\* last reading
ClockReadings == {t \in {now, now + 1} : t <= MaxTime}

(* ===================== routes/emergency-contacts.ts ===================== *)

\* GET /api/emergency-contacts
ListContacts(s, session) ==
    /\ Free(s)
    /\ LET r == Incoming("listContacts", session, 0, NoBody)
       IN  req' = [req EXCEPT ![s] =
                IF requireAuth(session) = <<>>
                THEN Reply(r, 401, ErrorBody("Unauthorized"))
                ELSE Reply(r, 200, ContactsOf(session))]
    /\ UNCHANGED <<store, ids, now>>
    /\ UNCHANGED app

\* POST /api/emergency-contacts
CreateContactRequired == {"name", "phoneNumber"}
CreateContactInvalid(body) == MissingRequired(body, CreateContactRequired)

CreateContact(s, session, body) ==
    /\ Free(s)
    /\ LET r == Incoming("createContact", session, 0, body)
       IN  IF CreateContactInvalid(body)
           THEN /\ req' = [req EXCEPT ![s] = Reply(r, 400, ErrorBody("Bad Request"))]
                /\ UNCHANGED <<store, ids, now>>
           ELSE IF requireAuth(session) = <<>>
           THEN /\ req' = [req EXCEPT ![s] = Reply(r, 401, ErrorBody("Unauthorized"))]
                /\ UNCHANGED <<store, ids, now>>
           ELSE /\ nextContactId <= MaxContacts
                /\ \E at \in ClockReadings :
                     LET contact == [id |-> nextContactId, userId |-> session,
                                     name |-> body.name,
                                     phoneNumber |-> body.phoneNumber,
                                     createdAt |-> at]
                     IN  /\ emergencyContacts' = emergencyContacts \cup {contact}
                         /\ req' = [req EXCEPT ![s] = Reply(r, 201, <<contact>>)]
                         /\ now' = at
                /\ nextContactId' = nextContactId + 1
                /\ UNCHANGED <<trips, locationUpdates, nextTripId, nextLocId>>
    /\ UNCHANGED app

\* PUT /api/emergency-contacts/:id, up to the ownership lookup
UpdateContact(s, session, id, body) ==
    /\ Free(s)
    /\ LET r == Incoming("updateContact", session, id, body)
           contact == AsRows(FindContact(id, session))
       IN  req' = [req EXCEPT ![s] =
                IF requireAuth(session) = <<>>
                THEN Reply(r, 401, ErrorBody("Unauthorized"))
                ELSE IF contact = <<>>
                THEN Reply(r, 404, ErrorBody("Contact not found"))
                ELSE Goto([r EXCEPT !.found = contact], "update")]
    /\ UNCHANGED <<store, ids, now>>
    /\ UNCHANGED app

\* updateData: only the supplied fields
updateData(body) == body.fields \cap {"name", "phoneNumber"}

ApplyUpdateData(c, body) ==
    [c EXCEPT !.name = IF "name" \in updateData(body) THEN body.name ELSE @,
              !.phoneNumber = IF "phoneNumber" \in updateData(body)
                              THEN body.phoneNumber ELSE @]

\* db.update(emergencyContacts).set(updateData).where(id = id).returning()
UpdateContactSet(s) ==
    /\ req[s].op = "updateContact" /\ req[s].pc = "update"
    /\ LET r == req[s]
           rows == {c \in emergencyContacts : c.id = r.id}
           updated == {ApplyUpdateData(c, r.body) : c \in rows}
       IN  IF updateData(r.body) = {}
           THEN \* drizzle refuses an empty set(): "No values to set"
                /\ req' = [req EXCEPT ![s] =
                        Reply(r, 500, ErrorBody("Internal Server Error"))]
                /\ UNCHANGED emergencyContacts
           ELSE /\ emergencyContacts' = (emergencyContacts \ rows) \cup updated
                /\ req' = [req EXCEPT ![s] =
                        Reply([r EXCEPT !.updated = AsRows(updated)], 200,
                              AsRows(updated))]
    /\ UNCHANGED <<trips, locationUpdates, ids, now>>
    /\ UNCHANGED app

\* DELETE /api/emergency-contacts/:id, up to the ownership lookup
DeleteContact(s, session, id) ==
    /\ Free(s)
    /\ LET r == Incoming("deleteContact", session, id, NoBody)
           contact == AsRows(FindContact(id, session))
       IN  req' = [req EXCEPT ![s] =
                IF requireAuth(session) = <<>>
                THEN Reply(r, 401, ErrorBody("Unauthorized"))
                ELSE IF contact = <<>>
                THEN Reply(r, 404, ErrorBody("Contact not found"))
                ELSE Goto([r EXCEPT !.found = contact], "delete")]
    /\ UNCHANGED <<store, ids, now>>
    /\ UNCHANGED app

\* db.delete(emergencyContacts).where(id = id); the foreign keys cascade to
\* trips and from trips to location_updates
CascadeTripsOfEveryContact(contactId) == trips
CascadeTrips(contactId) == {t \in trips : t.emergencyContactId = contactId}

DeleteContactRow(s) ==
    /\ req[s].op = "deleteContact" /\ req[s].pc = "delete"
    /\ LET r == req[s]
           gone == {t.id : t \in CascadeTrips(r.id)}
       IN  /\ emergencyContacts' = {c \in emergencyContacts : c.id # r.id}
           /\ trips' = trips \ CascadeTrips(r.id)
           /\ locationUpdates' =
                 SelectSeq(locationUpdates, LAMBDA l : l.tripId \notin gone)
           /\ req' = [req EXCEPT ![s] = Reply(r, 200, <<[success |-> TRUE]>>)]
    /\ UNCHANGED <<ids, now>>
    /\ UNCHANGED app

(* ============================ utils/sms.ts ============================== *)

\* TWILIO_ACCOUNT_SID, TWILIO_AUTH_TOKEN and TWILIO_PHONE_NUMBER as read at
\* module load, each set or defaulted to the empty string
EnvConfigs ==
    [accountSid : {"", "AC123"}, authToken : {"", "secret"},
     fromNumber : {"", "+15550100"}]

\* client.messages.create resolves or rejects
ProviderOutcomes == {"accepted", "rejected"}

\* sendSMS: what it did (provider called or not), what it returned, and
\* whether it raised to its caller
sendSMSPropagating(env, toNumber, message, outcome) ==
    IF env.accountSid = "" \/ env.authToken = "" \/ env.fromNumber = ""
    THEN [env |-> env, to |-> toNumber, message |-> message, provider |-> "not called",
          returned |-> FALSE, threw |-> FALSE]
    ELSE [env |-> env, to |-> toNumber, message |-> message, provider |-> outcome,
          returned |-> (outcome = "accepted"), threw |-> (outcome = "rejected")]
sendSMSUnguarded(env, toNumber, message, outcome) ==
    IF env.accountSid = "" \/ env.authToken = ""
    THEN [env |-> env, to |-> toNumber, message |-> message, provider |-> "not called",
          returned |-> FALSE, threw |-> FALSE]
    ELSE [env |-> env, to |-> toNumber, message |-> message, provider |-> outcome,
          returned |-> (outcome = "accepted"), threw |-> FALSE]
sendSMS(env, toNumber, message, outcome) ==
    IF env.accountSid = "" \/ env.authToken = "" \/ env.fromNumber = ""
    THEN [env |-> env, to |-> toNumber, message |-> message, provider |-> "not called",
          returned |-> FALSE, threw |-> FALSE]
    ELSE [env |-> env, to |-> toNumber, message |-> message, provider |-> outcome,
          returned |-> (outcome = "accepted"), threw |-> FALSE]

\* a message is its list of lines; a line is its literal text followed by
\* the values interpolated into it
buildTripStartMessage(activityType, clothingDescription, vehicleDescription, latitude, longitude) ==
    << <<"SAFETY ALERT: Trip started">>, <<"Activity: ", activityType>> >>
    \o (IF Truthy(clothingDescription)
        THEN << <<"Clothing: ", clothingDescription>> >> ELSE <<>>)
    \o (IF Truthy(vehicleDescription)
        THEN << <<"Vehicle: ", vehicleDescription>> >> ELSE <<>>)
    \o << <<"Location: ", latitude, longitude>> >>

buildLocationUpdateMessage(latitude, longitude) ==
    << <<"Location update: ", latitude, longitude>> >>

buildSOSMessage(clothingDescription, vehicleDescription, latitude, longitude) ==
    << <<"SOS EMERGENCY ALERT">>, <<"URGENT: User needs help!">> >>
    \o (IF Truthy(clothingDescription)
        THEN << <<"Clothing: ", clothingDescription>> >> ELSE <<>>)
    \o (IF Truthy(vehicleDescription)
        THEN << <<"Vehicle: ", vehicleDescription>> >> ELSE <<>>)
    \o << <<"Current Location: ", latitude, longitude>> >>

buildTripCompleteMessage == << <<"Trip completed and tracking stopped.">> >>

RECURSIVE Pow2(_)
Pow2(k) == IF k = 0 THEN 1 ELSE 2 * Pow2(k - 1)

\* 2^k modulo 5^4
RECURSIVE Pow2Mod625(_)
Pow2Mod625(k) == IF k = 0 THEN 1 ELSE (2 * Pow2Mod625(k - 1)) % 625

\* the binary exponent e of j/625: 2^e <= j/625 < 2^(e+1), for 0 < j < 625 * 2^14
AtLeastPow2(j, e) ==
    IF e >= 0 THEN j >= 625 * Pow2(e) ELSE (j >= 625 \/ j * Pow2(-e) >= 625)
BinaryExponent(j) == CHOOSE e \in -10..13 : AtLeastPow2(j, e) /\ ~AtLeastPow2(j, e + 1)

\* parseFloat(str) yields the IEEE-754 double nearest to the decimal.  For a
\* decimal of magnitude j/20000 = (j/625) * 2^-5 the 53-bit significand is
\* floor(j * 2^k / 625) with k = 52 - BinaryExponent(j), rounded to nearest on
\* the remainder r of that division: the double is the decimal itself (r = 0),
\* lies below it in magnitude (2r < 625) or lies above it (2r > 625)
parseFloat(value) ==
    LET j == value.int * 20000 + value.frac \div 5000
        r == ((j % 625) * Pow2Mod625(52 - BinaryExponent(j))) % 625
    IN  IF j = 0 \/ r = 0 THEN "exact"
        ELSE IF 2 * r > 625 THEN "above" ELSE "below"

\* Number.prototype.toFixed(4) takes the integer n for which n / 10^4 is
\* closest to the double, the larger n when two are equally close.  A decimal
\* with 8 fractional digits that is not half-way between two 4-digit values is
\* at least 1e-8 from the half-way point and its double less than 1e-13 from
\* it, so only a half-way decimal is rounded by the side its double lies on
toFixedTruncating(value) == value.frac \div 10000
toFixed(value) ==
    LET rem == value.frac % 10000
        up == rem > 5000 \/ (rem = 5000 /\ parseFloat(value) # "below")
    IN  value.frac \div 10000 + (IF up THEN 1 ELSE 0)

\* formatDecimal: parseFloat then toFixed(4); the result is sign, integer
\* part and the fraction counted in 1e-4 units
formatDecimal(value) ==
    LET q == toFixed(value)
    IN  IF q = 10000
        THEN [neg |-> value.neg, int |-> value.int + 1, frac4 |-> 0]
        ELSE [neg |-> value.neg, int |-> value.int, frac4 |-> q]

(* ============================ routes/trips.ts =========================== *)

EmbeddedContact(c) == [name |-> c.name, phoneNumber |-> c.phoneNumber]

\* the projection returned by start, location and sos; reading a field of
\* updated[0] when the statement returned no row raises
TripProjection(r, contact) ==
    LET tripData == r.updated[1]
    IN  <<[id |-> tripData.id, activityType |-> tripData.activityType,
           startTime |-> tripData.startTime, status |-> tripData.status,
           lastLatitude |-> formatDecimal(tripData.lastLatitude),
           lastLongitude |-> formatDecimal(tripData.lastLongitude),
           lastLocationUpdate |-> tripData.lastLocationUpdate,
           emergencyContact |-> EmbeddedContact(contact)]>>

\* the projection returned by complete
CompleteProjection(r, contact) ==
    LET tripData == r.updated[1]
    IN  <<[id |-> tripData.id, activityType |-> tripData.activityType,
           startTime |-> tripData.startTime, endTime |-> tripData.endTime,
           status |-> tripData.status,
           emergencyContact |-> EmbeddedContact(contact)]>>

\* await sendSMS(...), then build and return the projection
SendTwiceAndReply(r, sms, code, projection) ==
    Reply([r EXCEPT !.sms = @ \o <<sms, sms>>], code, projection)
SendAndReply(r, sms, code, projection) ==
    LET r1 == [r EXCEPT !.sms = Append(@, sms)]
    IN  IF sms.threw \/ r.updated = <<>>
        THEN Reply(r1, 500, ErrorBody("Internal Server Error"))
        ELSE Reply(r1, code, projection)

\* POST /api/trips/start, up to the contact lookup
StartRequired == {"emergencyContactId", "activityType", "latitude", "longitude"}

Start(s, session, body) ==
    /\ Free(s)
    /\ LET r == Incoming("start", session, 0, body)
           contact == AsRows(FindContact(body.emergencyContactId, session))
       IN  IF MissingRequired(body, StartRequired)
           THEN req' = [req EXCEPT ![s] = Reply(r, 400, ErrorBody("Bad Request"))]
           ELSE IF requireAuth(session) = <<>>
           THEN req' = [req EXCEPT ![s] = Reply(r, 401, ErrorBody("Unauthorized"))]
           ELSE IF contact = <<>>
           THEN req' = [req EXCEPT ![s] =
                    Reply(r, 400, ErrorBody("Emergency contact not found"))]
           ELSE /\ nextTripId <= MaxTrips
                /\ req' = [req EXCEPT ![s] = Goto([r EXCEPT !.found = contact], "insert")]
    /\ UNCHANGED <<store, ids, now>>
    /\ UNCHANGED app

\* db.insert(trips).values({...}).returning()
NewTrip(r, id, at) ==
    [id |-> id, userId |-> r.session,
     emergencyContactId |-> r.body.emergencyContactId,
     activityType |-> r.body.activityType,
     clothingDescription |-> r.body.clothingDescription,
     vehicleDescription |-> r.body.vehicleDescription,
     startTime |-> at, endTime |-> NoTime, status |-> "active",
     startLatitude |-> r.body.latitude, startLongitude |-> r.body.longitude,
     lastLatitude |-> r.body.latitude, lastLongitude |-> r.body.longitude,
     lastLocationUpdate |-> at, createdAt |-> at]

StartInsert(s) ==
    /\ req[s].op = "start" /\ req[s].pc = "insert"
    /\ \E at \in ClockReadings :
         LET r == [req[s] EXCEPT !.now = at]
         IN  /\ now' = at
             /\ IF \A c \in emergencyContacts : c.id # r.body.emergencyContactId
                THEN \* foreign key violation: the insert raises
                     /\ req' = [req EXCEPT ![s] =
                             Reply(r, 500, ErrorBody("Internal Server Error"))]
                     /\ UNCHANGED <<trips, nextTripId>>
                ELSE LET trip == NewTrip(r, nextTripId, at)
                     IN  /\ trips' = trips \cup {trip}
                         /\ nextTripId' = nextTripId + 1
                         /\ req' = [req EXCEPT ![s] =
                                 Goto([r EXCEPT !.updated = <<trip>>], "sms")]
    /\ UNCHANGED <<emergencyContacts, locationUpdates, nextContactId, nextLocId>>
    /\ UNCHANGED app

StartSend(s) ==
    /\ req[s].op = "start" /\ req[s].pc = "sms"
    /\ \E e \in EnvConfigs, outcome \in ProviderOutcomes :
         LET r == req[s]
             contact == r.found[1]
             message == buildTripStartMessage(r.body.activityType,
                            r.body.clothingDescription, r.body.vehicleDescription,
                            r.body.latitude, r.body.longitude)
             sms == sendSMS(e, contact.phoneNumber, message, outcome)
         IN  req' = [req EXCEPT ![s] =
                 SendAndReply(r, sms, 201, TripProjection(r, contact))]
    /\ UNCHANGED <<store, ids, now>>
    /\ UNCHANGED app

\* if (trip.status !== 'active') ... 400
NotActiveOnlySOS(trip) == trip.status = "sos"
NotActive(trip) == trip.status # "active"

\* PUT /api/trips/:id/location, up to the status check
UpdateLocation(s, session, id, body) ==
    /\ Free(s)
    /\ LET r == Incoming("location", session, id, body)
           trip == AsRows(FindTrip(id, session))
       IN  IF requireAuth(session) = <<>>
           THEN req' = [req EXCEPT ![s] = Reply(r, 401, ErrorBody("Unauthorized"))]
           ELSE IF trip = <<>>
           THEN req' = [req EXCEPT ![s] = Reply(r, 404, ErrorBody("Trip not found"))]
           ELSE IF NotActive(trip[1].trip)
           THEN req' = [req EXCEPT ![s] = Reply(r, 400, ErrorBody("Trip is not active"))]
           ELSE /\ nextLocId <= MaxLocs
                /\ req' = [req EXCEPT ![s] = Goto([r EXCEPT !.found = trip], "insert")]
    /\ UNCHANGED <<store, ids, now>>
    /\ UNCHANGED app

\* db.insert(locationUpdates).values({tripId, latitude, longitude, timestamp})
InsertLocationOverwriting(s) ==
    \E at \in ClockReadings :
        LET r == [req[s] EXCEPT !.now = at]
        IN  /\ now' = at
            /\ locationUpdates' =
                  SelectSeq(locationUpdates, LAMBDA l : l.tripId # r.id)
                  \o <<[id |-> nextLocId, tripId |-> r.id,
                        latitude |-> r.body.latitude,
                        longitude |-> r.body.longitude, timestamp |-> at]>>
            /\ nextLocId' = nextLocId + 1
            /\ req' = [req EXCEPT ![s] = Goto(r, "update")]
InsertLocation(s) ==
    \E at \in ClockReadings :
        LET r == [req[s] EXCEPT !.now = at]
        IN  /\ now' = at
            /\ IF \A t \in trips : t.id # r.id
               THEN \* foreign key violation: the insert raises
                    /\ req' = [req EXCEPT ![s] =
                            Reply(r, 500, ErrorBody("Internal Server Error"))]
                    /\ UNCHANGED <<locationUpdates, nextLocId>>
               ELSE /\ locationUpdates' = Append(locationUpdates,
                            [id |-> nextLocId, tripId |-> r.id,
                             latitude |-> r.body.latitude,
                             longitude |-> r.body.longitude, timestamp |-> at])
                    /\ nextLocId' = nextLocId + 1
                    /\ req' = [req EXCEPT ![s] = Goto(r, "update")]

UpdateLocationInsert(s) ==
    /\ req[s].op = "location" /\ req[s].pc = "insert"
    /\ InsertLocation(s)
    /\ UNCHANGED <<emergencyContacts, trips, nextContactId, nextTripId>>
    /\ UNCHANGED app

\* db.update(trips).set({lastLatitude, lastLongitude, lastLocationUpdate})
\*   .where(id = id).returning()
SetLocationLatitudeOnly(t, r) ==
    [t EXCEPT !.lastLatitude = r.body.latitude, !.lastLocationUpdate = r.now]
SetLocation(t, r) ==
    [t EXCEPT !.lastLatitude = r.body.latitude,
              !.lastLongitude = r.body.longitude,
              !.lastLocationUpdate = r.now]

UpdateLocationSet(s) ==
    /\ req[s].op = "location" /\ req[s].pc = "update"
    /\ LET r == req[s]
           rows == {t \in trips : t.id = r.id}
           updated == {SetLocation(t, r) : t \in rows}
       IN  /\ trips' = (trips \ rows) \cup updated
           /\ req' = [req EXCEPT ![s] =
                   Goto([r EXCEPT !.updated = AsRows(updated)], "sms")]
    /\ UNCHANGED <<emergencyContacts, locationUpdates, ids, now>>
    /\ UNCHANGED app

UpdateLocationSend(s) ==
    /\ req[s].op = "location" /\ req[s].pc = "sms"
    /\ \E e \in EnvConfigs, outcome \in ProviderOutcomes :
         LET r == req[s]
             contact == r.found[1].emergencyContact
             message == buildLocationUpdateMessage(r.body.latitude, r.body.longitude)
             sms == sendSMS(e, contact.phoneNumber, message, outcome)
         IN  req' = [req EXCEPT ![s] =
                 SendAndReply(r, sms, 200, TripProjection(r, contact))]
    /\ UNCHANGED <<store, ids, now>>
    /\ UNCHANGED app

\* PUT /api/trips/:id/complete, up to the ownership lookup
Complete(s, session, id) ==
    /\ Free(s)
    /\ LET r == Incoming("complete", session, id, NoBody)
           trip == AsRows(FindTrip(id, session))
       IN  req' = [req EXCEPT ![s] =
                IF requireAuth(session) = <<>>
                THEN Reply(r, 401, ErrorBody("Unauthorized"))
                ELSE IF trip = <<>>
                THEN Reply(r, 404, ErrorBody("Trip not found"))
                ELSE Goto([r EXCEPT !.found = trip], "update")]
    /\ UNCHANGED <<store, ids, now>>
    /\ UNCHANGED app

\* db.update(trips).set({status: 'completed', endTime: now}).where(id = id)
SetCompletedTypo(t, at) == [t EXCEPT !.status = "complete", !.endTime = at]
SetCompletedStatusOnly(t, at) == [t EXCEPT !.status = "completed"]
SetCompleted(t, at) == [t EXCEPT !.status = "completed", !.endTime = at]

CompleteSet(s) ==
    /\ req[s].op = "complete" /\ req[s].pc = "update"
    /\ \E at \in ClockReadings :
         LET r == [req[s] EXCEPT !.now = at]
             rows == {t \in trips : t.id = r.id}
             updated == {SetCompleted(t, at) : t \in rows}
         IN  /\ now' = at
             /\ trips' = (trips \ rows) \cup updated
             /\ req' = [req EXCEPT ![s] =
                     Goto([r EXCEPT !.updated = AsRows(updated)], "sms")]
    /\ UNCHANGED <<emergencyContacts, locationUpdates, ids>>
    /\ UNCHANGED app

CompleteSend(s) ==
    /\ req[s].op = "complete" /\ req[s].pc = "sms"
    /\ \E e \in EnvConfigs, outcome \in ProviderOutcomes :
         LET r == req[s]
             contact == r.found[1].emergencyContact
             sms == sendSMS(e, contact.phoneNumber, buildTripCompleteMessage, outcome)
         IN  req' = [req EXCEPT ![s] =
                 SendAndReply(r, sms, 200, CompleteProjection(r, contact))]
    /\ UNCHANGED <<store, ids, now>>
    /\ UNCHANGED app

\* PUT /api/trips/:id/sos, up to the ownership lookup
TriggerSOS(s, session, id, body) ==
    /\ Free(s)
    /\ LET r == Incoming("sos", session, id, body)
           trip == AsRows(FindTrip(id, session))
       IN  IF requireAuth(session) = <<>>
           THEN req' = [req EXCEPT ![s] = Reply(r, 401, ErrorBody("Unauthorized"))]
           ELSE IF trip = <<>>
           THEN req' = [req EXCEPT ![s] = Reply(r, 404, ErrorBody("Trip not found"))]
           ELSE /\ nextLocId <= MaxLocs
                /\ req' = [req EXCEPT ![s] = Goto([r EXCEPT !.found = trip], "insert")]
    /\ UNCHANGED <<store, ids, now>>
    /\ UNCHANGED app

TriggerSOSInsert(s) ==
    /\ req[s].op = "sos" /\ req[s].pc = "insert"
    /\ InsertLocation(s)
    /\ UNCHANGED <<emergencyContacts, trips, nextContactId, nextTripId>>
    /\ UNCHANGED app

\* db.update(trips).set({status: 'sos', lastLatitude, lastLongitude,
\*   lastLocationUpdate}).where(id = id).returning()
SetSOSStatusOnly(t, r) == [t EXCEPT !.status = "sos"]
SetSOS(t, r) == [SetLocation(t, r) EXCEPT !.status = "sos"]

TriggerSOSSet(s) ==
    /\ req[s].op = "sos" /\ req[s].pc = "update"
    /\ LET r == req[s]
           rows == {t \in trips : t.id = r.id}
           updated == {SetSOS(t, r) : t \in rows}
       IN  /\ trips' = (trips \ rows) \cup updated
           /\ req' = [req EXCEPT ![s] =
                   Goto([r EXCEPT !.updated = AsRows(updated)], "sms")]
    /\ UNCHANGED <<emergencyContacts, locationUpdates, ids, now>>
    /\ UNCHANGED app

TriggerSOSSend(s) ==
    /\ req[s].op = "sos" /\ req[s].pc = "sms"
    /\ \E e \in EnvConfigs, outcome \in ProviderOutcomes :
         LET r == req[s]
             trip == r.found[1].trip
             contact == r.found[1].emergencyContact
             message == buildSOSMessage(trip.clothingDescription,
                            trip.vehicleDescription,
                            r.body.latitude, r.body.longitude)
             sms == sendSMS(e, contact.phoneNumber, message, outcome)
         IN  req' = [req EXCEPT ![s] =
                 SendAndReply(r, sms, 200, TripProjection(r, contact))]
    /\ UNCHANGED <<store, ids, now>>
    /\ UNCHANGED app

\* GET /api/trips/active
ActiveProjection(row) ==
    <<[id |-> row.trip.id, activityType |-> row.trip.activityType,
       startTime |-> row.trip.startTime, status |-> row.trip.status,
       lastLatitude |-> row.trip.lastLatitude,
       lastLongitude |-> row.trip.lastLongitude,
       lastLocationUpdate |-> row.trip.lastLocationUpdate,
       emergencyContact |-> EmbeddedContact(row.emergencyContact)]>>

\* trips.findFirst(where userId = userId and status = 'active'): without an
\* ORDER BY the store may return any matching row
ActiveTripsOfAnyone(userId) ==
    {WithContact(t) : t \in {x \in trips : x.status = "active"}}
ActiveTripsOf(userId) ==
    {WithContact(t) : t \in {x \in trips : x.userId = userId /\ x.status = "active"}}

GetActive(s, session) ==
    /\ Free(s)
    /\ LET r == Incoming("getActive", session, 0, NoBody)
       IN  IF requireAuth(session) = <<>>
           THEN req' = [req EXCEPT ![s] = Reply(r, 401, ErrorBody("Unauthorized"))]
           ELSE IF ActiveTripsOf(session) = {}
           THEN req' = [req EXCEPT ![s] = Reply(r, 200, <<>>)]
           ELSE \E row \in ActiveTripsOf(session) :
                    req' = [req EXCEPT ![s] = Reply(r, 200, ActiveProjection(row))]
    /\ UNCHANGED <<store, ids, now>>
    /\ UNCHANGED app

\* GET /api/trips
PageLimit == 20

ListedTrip(row) ==
    [id |-> row.trip.id, userId |-> row.trip.userId,
     activityType |-> row.trip.activityType,
     startTime |-> row.trip.startTime, endTime |-> row.trip.endTime,
     status |-> row.trip.status, createdAt |-> row.trip.createdAt,
     startLatitude |-> formatDecimal(row.trip.startLatitude),
     startLongitude |-> formatDecimal(row.trip.startLongitude),
     lastLatitude |-> formatDecimal(row.trip.lastLatitude),
     lastLongitude |-> formatDecimal(row.trip.lastLongitude),
     lastLocationUpdate |-> row.trip.lastLocationUpdate,
     emergencyContact |-> EmbeddedContact(row.emergencyContact)]

\* orderBy desc(createdAt), limit k: the newest k rows of S, newest first, in
\* every order the store may return them (rows with equal createdAt come in
\* any order)
RECURSIVE NewestFirst(_, _)
NewestFirst(S, k) ==
    IF k = 0 \/ S = {} THEN {<<>>}
    ELSE UNION {{<<t>> \o q : q \in NewestFirst(S \ {t}, k - 1)} :
                  t \in {x \in S : \A y \in S : x.createdAt >= y.createdAt}}

\* trips.findMany(where userId = userId, orderBy desc(createdAt), limit 20),
\* each row mapped to its listed form
RecentTripsOfUnlimited(userId) ==
    LET mine == {t \in trips : t.userId = userId}
    IN  {[i \in 1..Len(q) |-> ListedTrip(WithContact(q[i]))] :
            q \in NewestFirst(mine, Cardinality(mine))}
RecentTripsOf(userId) ==
    LET mine == {t \in trips : t.userId = userId}
    IN  {[i \in 1..Len(q) |-> ListedTrip(WithContact(q[i]))] :
            q \in NewestFirst(mine, PageLimit)}

ListTrips(s, session) ==
    /\ Free(s)
    /\ LET r == Incoming("listTrips", session, 0, NoBody)
       IN  IF requireAuth(session) = <<>>
           THEN req' = [req EXCEPT ![s] = Reply(r, 401, ErrorBody("Unauthorized"))]
           ELSE \E page \in RecentTripsOf(session) :
                    req' = [req EXCEPT ![s] = Reply(r, 200, page)]
    /\ UNCHANGED <<store, ids, now>>
    /\ UNCHANGED app

(* ============================= the system =============================== *)

ContactBody(fields, name, phoneNumber) ==
    [fields |-> fields,
     name |-> IF "name" \in fields THEN name ELSE Null,
     phoneNumber |-> IF "phoneNumber" \in fields THEN phoneNumber ELSE Null]

CreateBodies ==
    { ContactBody({"name", "phoneNumber"}, "John Doe", "+1234567890"),
      ContactBody({"name"}, "Jane Doe", Null),
      ContactBody({"name", "phoneNumber"}, "", "+1234567890") }

UpdateBodies ==
    { ContactBody(f, "John Updated", "+0987654321") : f \in SUBSET {"name", "phoneNumber"} }

CoordBody(p) ==
    [fields |-> {"latitude", "longitude"}, latitude |-> p.latitude,
     longitude |-> p.longitude]

StartBody(fields, contactId, clothing, vehicle, p) ==
    [fields |-> fields,
     emergencyContactId |-> contactId, activityType |-> "hiking",
     clothingDescription |-> clothing, vehicleDescription |-> vehicle,
     latitude |-> p.latitude, longitude |-> p.longitude]

StartBodies ==
    { StartBody(StartRequired \cup {"clothingDescription", "vehicleDescription"},
                c, "warm jacket and boots", "blue sedan", StartCoords) :
        c \in ContactIds }
    \cup { StartBody({"activityType", "latitude"}, 0, Null, Null, StartCoords) }

(* ===================== app/(tabs)/(home)/index.tsx ====================== *)
\* The home screen calls the backend as user u1: the periodic
\* updateTripLocation on connection 1 and everything else (the init effect,
\* startTrip, completeTrip, triggerSOS) on connection 2.  A call is a client
\* step that moves to its await, the arrival of the request at the backend,
\* the backend's steps, and a client step that takes the response and runs
\* the rest of the function.  One call of each kind is in flight at a time
\* (the buttons are disabled while loading).

AppUser == "u1"

NoCall == [op |-> "none", pc |-> "idle", trip |-> <<>>]

\* the component's state after its first render: the init effect is about to
\* call requestLocationPermission
HomeInit ==
    [activeTrip |-> <<>>, hasLocationPermission |-> FALSE,
     currentLocation |-> FALSE, initialLoading |-> TRUE,
     locationUpdateInterval |-> 0, cleanup |-> FALSE,
     timers |-> {}, nextTimer |-> 1,
     periodic |-> NoCall,
     user |-> [op |-> "init", pc |-> "permission", trip |-> <<>>]]

\* clearInterval(id)
ClearInterval(timers, id) == {t \in timers : t.id # id}

\* the effect on [activeTrip, hasLocationPermission], run after a render in
\* which one of the two changed: the cleanup the previous run returned, then
\* the body.  The interval's callback closes over the activeTrip of this render
LocationEffect(h) ==
    LET kept == IF h.cleanup THEN ClearInterval(h.timers, h.locationUpdateInterval)
                ELSE h.timers
    IN  IF h.activeTrip # <<>> /\ h.hasLocationPermission
        THEN [h EXCEPT !.timers = kept \cup {[id |-> h.nextTimer, trip |-> h.activeTrip[1]]},
                       !.locationUpdateInterval = h.nextTimer,
                       !.nextTimer = h.nextTimer + 1,
                       !.cleanup = TRUE]
        ELSE [h EXCEPT !.timers = kept, !.cleanup = FALSE]

\* setActiveTrip(trip): null after null is no change of state; a trip received
\* from the backend is a new object, so the effect runs again
SetActiveTrip(h, trip) ==
    IF trip = <<>> /\ h.activeTrip = <<>> THEN h
    ELSE LocationEffect([h EXCEPT !.activeTrip = trip])

\* setHasLocationPermission(granted)
SetHasLocationPermission(h, granted) ==
    IF granted = h.hasLocationPermission THEN h
    ELSE LocationEffect([h EXCEPT !.hasLocationPermission = granted])

\* a step of the app leaves the backend as it is
AppOnly == UNCHANGED <<store, ids, now, req, tripProvider>>

\* a step of the app that takes the response waiting on connection s
TakeResponse(s) ==
    /\ req' = [req EXCEPT ![s] = Idle]
    /\ UNCHANGED <<store, ids, now, tripProvider>>

\* requestLocationPermission, called by the init effect and by the warning
\* button: permission denied, granted with a position, or granted with
\* getCurrentPositionAsync failing
RequestLocationPermission ==
    /\ \/ home.user.op = "init" /\ home.user.pc = "permission"
       \/ home.user = NoCall /\ ~home.initialLoading /\ ~home.hasLocationPermission
    /\ home.nextTimer <= MaxTimers
    /\ \E granted \in BOOLEAN, position \in BOOLEAN :
         /\ position => granted
         /\ home' = [SetHasLocationPermission(home, granted) EXCEPT
                       !.currentLocation = @ \/ position,
                       !.user = IF home.user.op = "init"
                                THEN [home.user EXCEPT !.pc = "get"] ELSE @]
    /\ AppOnly

\* checkActiveTrip of the init effect: GET /api/trips/active arrives
CheckActiveTripSends ==
    /\ home.user.op = "init" /\ home.user.pc = "get"
    /\ GetActive(2, AppUser)

\* checkActiveTrip after its await, then setInitialLoading(false)
CheckActiveTripResumes ==
    /\ home.user.op = "init" /\ home.user.pc = "get"
    /\ req[2].op = "getActive" /\ req[2].pc = "done"
    /\ home.nextTimer <= MaxTimers
    /\ LET trip == IF req[2].status = 200 THEN req[2].result ELSE <<>>
       IN  home' = [SetActiveTrip(home, trip) EXCEPT
                      !.initialLoading = FALSE, !.user = NoCall]
    /\ TakeResponse(2)

\* startTrip up to its await; the start button shows while there is no active
\* trip and is enabled with the location permission
StartTrip ==
    /\ home.user = NoCall /\ ~home.initialLoading
    /\ home.activeTrip = <<>>
    /\ home.hasLocationPermission /\ home.currentLocation
    /\ home' = [home EXCEPT !.user = [op |-> "startTrip", pc |-> "post", trip |-> <<>>]]
    /\ AppOnly

StartTripSends ==
    /\ home.user.op = "startTrip" /\ home.user.pc = "post"
    /\ \E c \in ContactsOf(AppUser) :
          Start(2, AppUser,
                [fields |-> {"emergencyContactId", "activityType", "latitude", "longitude"},
                 emergencyContactId |-> c.id, activityType |-> "hiking",
                 clothingDescription |-> Null, vehicleDescription |-> Null,
                 latitude |-> StartCoords.latitude, longitude |-> StartCoords.longitude])

\* startTrip after its await: setActiveTrip(trip), or the error feedback
StartTripResumes ==
    /\ home.user.op = "startTrip" /\ home.user.pc = "post"
    /\ req[2].op = "start" /\ req[2].pc = "done"
    /\ home.nextTimer <= MaxTimers
    /\ home' = IF req[2].status = 201
               THEN [SetActiveTrip(home, req[2].result) EXCEPT !.user.pc = "sms"]
               ELSE [home EXCEPT !.user = NoCall]
    /\ TakeResponse(2)

\* the rest of startTrip after await sendSMS
StartTripAfterSMS ==
    /\ home.user.op = "startTrip" /\ home.user.pc = "sms"
    /\ home' = [home EXCEPT !.user = NoCall]
    /\ AppOnly

\* the interval's callback: updateTripLocation up to its first await, with the
\* activeTrip the callback closed over
LocationTimerFires ==
    /\ home.periodic = NoCall
    /\ \E t \in home.timers :
          home' = [home EXCEPT !.periodic =
                      [op |-> "updateTripLocation", pc |-> "position", trip |-> <<t.trip>>]]
    /\ AppOnly

\* getCurrentPositionAsync resolves or rejects
UpdateTripLocationPosition ==
    /\ home.periodic.pc = "position"
    /\ \E resolved \in BOOLEAN :
          home' = [home EXCEPT !.periodic =
                      IF resolved THEN [@ EXCEPT !.pc = "put"] ELSE NoCall]
    /\ AppOnly

UpdateTripLocationSends ==
    /\ home.periodic.pc = "put"
    /\ UpdateLocation(1, AppUser, home.periodic.trip[1].id, CoordBody(LaterCoords))

\* updateTripLocation after its await: setActiveTrip(updatedTrip), or the catch
UpdateTripLocationResumes ==
    /\ home.periodic.pc = "put"
    /\ req[1].op = "location" /\ req[1].pc = "done"
    /\ home.nextTimer <= MaxTimers
    /\ home' = IF req[1].status = 200
               THEN [SetActiveTrip(home, req[1].result) EXCEPT !.periodic.pc = "sms"]
               ELSE [home EXCEPT !.periodic = NoCall]
    /\ TakeResponse(1)

\* setCurrentLocation(location)
UpdateTripLocationAfterSMS ==
    /\ home.periodic.pc = "sms"
    /\ home' = [home EXCEPT !.periodic = NoCall, !.currentLocation = TRUE]
    /\ AppOnly

\* completeTrip up to its await
CompleteTrip ==
    /\ home.user = NoCall /\ ~home.initialLoading
    /\ home.activeTrip # <<>>
    /\ home' = [home EXCEPT !.user =
                   [op |-> "completeTrip", pc |-> "put", trip |-> home.activeTrip]]
    /\ AppOnly

CompleteTripSends ==
    /\ home.user.op = "completeTrip" /\ home.user.pc = "put"
    /\ Complete(2, AppUser, home.user.trip[1].id)

\* setActiveTrip(null) at the end of completeTrip's try block
CompleteTripFinish(h) == [SetActiveTrip(h, <<>>) EXCEPT !.user = NoCall]

\* completeTrip after its await: sendSMS when a position is known, then
\* setActiveTrip(null); or the error feedback
CompleteTripResumes ==
    /\ home.user.op = "completeTrip" /\ home.user.pc = "put"
    /\ req[2].op = "complete" /\ req[2].pc = "done"
    /\ home' = IF req[2].status # 200 THEN [home EXCEPT !.user = NoCall]
               ELSE IF home.currentLocation THEN [home EXCEPT !.user.pc = "sms"]
               ELSE CompleteTripFinish(home)
    /\ TakeResponse(2)

CompleteTripAfterSMS ==
    /\ home.user.op = "completeTrip" /\ home.user.pc = "sms"
    /\ home' = CompleteTripFinish(home)
    /\ AppOnly

\* triggerSOS up to its await
TriggerSOSPressed ==
    /\ home.user = NoCall /\ ~home.initialLoading
    /\ home.activeTrip # <<>> /\ home.currentLocation
    /\ home' = [home EXCEPT !.user =
                   [op |-> "triggerSOS", pc |-> "put", trip |-> home.activeTrip]]
    /\ AppOnly

TriggerSOSSends ==
    /\ home.user.op = "triggerSOS" /\ home.user.pc = "put"
    /\ TriggerSOS(2, AppUser, home.user.trip[1].id, CoordBody(SOSCoords))

\* triggerSOS after its await: setActiveTrip(updatedTrip), or the error feedback
TriggerSOSResumes ==
    /\ home.user.op = "triggerSOS" /\ home.user.pc = "put"
    /\ req[2].op = "sos" /\ req[2].pc = "done"
    /\ home.nextTimer <= MaxTimers
    /\ home' = IF req[2].status = 200
               THEN [SetActiveTrip(home, req[2].result) EXCEPT !.user.pc = "sms"]
               ELSE [home EXCEPT !.user = NoCall]
    /\ TakeResponse(2)

TriggerSOSAfterSMS ==
    /\ home.user.op = "triggerSOS" /\ home.user.pc = "sms"
    /\ home' = [home EXCEPT !.user = NoCall]
    /\ AppOnly

(* ======================= contexts/TripContext.tsx ======================= *)

\* the provider's state after its first render; the timer effect of that
\* render has not run yet
ProviderInit ==
    [activeTrip |-> <<>>, elapsedTime |-> 0, timerIntervalRef |-> 0,
     cleanup |-> FALSE, timers |-> {}, nextTimer |-> 1, pending |-> TRUE]

\* new Date(str).getTime(): the milliseconds, or no number (NaN) for a string
\* that is not a date
ParseDate(str) ==
    CASE str = "1970-01-01T00:00:01.000Z" -> <<1000>>
      [] str = "1970-01-01T00:00:03.500Z" -> <<3500>>
      [] OTHER -> <<>>

\* the trips a consumer hands to setActiveTrip: startTime empty, not a date,
\* or a date
ProviderTrips ==
    { <<[id |-> 1, startTime |-> str]>> :
        str \in {"", "soon", "1970-01-01T00:00:01.000Z", "1970-01-01T00:00:03.500Z"} }

\* the readings Date.now() may give, in milliseconds; the device clock need
\* not agree with the backend's, and can be set back
DeviceClock == {0, 1000, 3499, 4500, 7500}

\* updateTimer: the value it passes to setElapsedTime
updateTimerUnchecked(startTime, clock) == (clock - startTime) \div 1000
updateTimer(startTime, clock) ==
    LET elapsed == (clock - startTime) \div 1000
    IN  IF elapsed >= 0 THEN elapsed ELSE 0

\* the timer effect, run after a render in which activeTrip changed: the
\* cleanup the previous run returned, then the body
TimerEffect(p, clock) ==
    LET \* the returned cleanup: clear the interval held by the ref
        cleaned == IF p.cleanup /\ p.timerIntervalRef # 0
                   THEN [p EXCEPT !.timers = ClearInterval(@, p.timerIntervalRef),
                                  !.timerIntervalRef = 0]
                   ELSE p
        \* "Clear any existing timer"
        cleared == IF cleaned.timerIntervalRef # 0
                   THEN [cleaned EXCEPT !.timers = ClearInterval(@, cleaned.timerIntervalRef),
                                        !.timerIntervalRef = 0]
                   ELSE cleaned
        q == [cleared EXCEPT !.pending = FALSE, !.cleanup = FALSE]
    IN  IF q.activeTrip # <<>> /\ Truthy(q.activeTrip[1].startTime)
        THEN LET startTime == ParseDate(q.activeTrip[1].startTime)
             IN  IF startTime = <<>>
                 THEN [q EXCEPT !.elapsedTime = 0]
                 ELSE [q EXCEPT !.elapsedTime = updateTimer(startTime[1], clock),
                                !.timers = @ \cup {[id |-> q.nextTimer,
                                                    startTime |-> startTime[1]]},
                                !.timerIntervalRef = q.nextTimer,
                                !.nextTimer = q.nextTimer + 1,
                                !.cleanup = TRUE]
        ELSE [q EXCEPT !.elapsedTime = 0]

\* a step of the provider leaves the backend and the home screen as they are
ProviderOnly == UNCHANGED <<store, ids, now, req, home>>

\* a consumer calls setActiveTrip(trip); the provider renders again, and the
\* timer effect of that render is yet to run
ProviderSetActiveTrip(trip) ==
    /\ ~(trip = <<>> /\ tripProvider.activeTrip = <<>>)
    /\ tripProvider.nextTimer <= MaxTimers
    /\ tripProvider' = [tripProvider EXCEPT !.activeTrip = trip, !.pending = TRUE]
    /\ ProviderOnly

ProviderEffectRuns ==
    /\ tripProvider.pending
    /\ \E clock \in DeviceClock : tripProvider' = TimerEffect(tripProvider, clock)
    /\ ProviderOnly

\* a live interval calls updateTimer
ProviderTimerFires ==
    /\ \E t \in tripProvider.timers, clock \in DeviceClock :
          tripProvider' = [tripProvider EXCEPT
                              !.elapsedTime = updateTimer(t.startTime, clock)]
    /\ ProviderOnly

(* ----------------------------- the backend ------------------------------ *)
Init ==
    /\ emergencyContacts = {}
    /\ trips = {}
    /\ locationUpdates = <<>>
    /\ nextContactId = 1
    /\ nextTripId = 1
    /\ nextLocId = 1
    /\ now = 0
    /\ req = [s \in Slots |-> Idle]
    /\ home = HomeInit
    /\ tripProvider = ProviderInit

\* POST /api/emergency-contacts while at most SeqContacts contacts are created
CreateContactSeq(s, session, body) ==
    /\ CreateContact(s, session, body)
    /\ nextContactId' <= SeqContacts + 1

Handle(s) ==
    \/ \E u \in Sessions : ListContacts(s, u)
    \/ \E u \in Sessions, b \in CreateBodies : CreateContactSeq(s, u, b)
    \/ \E u \in Sessions, c \in ContactIds, b \in UpdateBodies : UpdateContact(s, u, c, b)
    \/ UpdateContactSet(s)
    \/ \E u \in Sessions, c \in ContactIds : DeleteContact(s, u, c)
    \/ DeleteContactRow(s)
    \/ \E u \in Sessions : ListTrips(s, u)
    \/ \E u \in Sessions : GetActive(s, u)
    \/ \E u \in Sessions, b \in StartBodies : Start(s, u, b)
    \/ StartInsert(s)
    \/ StartSend(s)
    \/ \E u \in Sessions, t \in TripIds : UpdateLocation(s, u, t, CoordBody(LaterCoords))
    \/ UpdateLocationInsert(s)
    \/ UpdateLocationSet(s)
    \/ UpdateLocationSend(s)
    \/ \E u \in Sessions, t \in TripIds : Complete(s, u, t)
    \/ CompleteSet(s)
    \/ CompleteSend(s)
    \/ \E u \in Sessions, t \in TripIds : TriggerSOS(s, u, t, CoordBody(SOSCoords))
    \/ TriggerSOSInsert(s)
    \/ TriggerSOSSet(s)
    \/ TriggerSOSSend(s)
    \/ Respond(s)

\* requests arrive one at a time on a single connection
Next == Handle(1)

Spec == Init /\ [][Next]_vars

(* ----------------- two users' contacts, trips and deletes ---------------- *)
\* both users keep contacts, start trips on them, report positions and delete
\* contacts; every body is well-formed
HandleCascade(s) ==
    \/ \E u \in Users : CreateContact(s, u, ContactBody({"name", "phoneNumber"}, "John Doe", "+1234567890"))
    \/ \E u \in Users, b \in StartBodies :
          ~MissingRequired(b, StartRequired) /\ Start(s, u, b)
    \/ StartInsert(s)
    \/ StartSend(s)
    \/ \E u \in Users, t \in TripIds : UpdateLocation(s, u, t, CoordBody(LaterCoords))
    \/ UpdateLocationInsert(s)
    \/ UpdateLocationSet(s)
    \/ UpdateLocationSend(s)
    \/ \E u \in Users, c \in ContactIds : DeleteContact(s, u, c)
    \/ DeleteContactRow(s)
    \/ Respond(s)

\* deletes also arrive on a second connection, while a request of the first
\* is between two of its statements
NextCascade ==
    \/ HandleCascade(1)
    \/ \E u \in Users, c \in ContactIds : DeleteContact(2, u, c)
    \/ DeleteContactRow(2)
    \/ Respond(2)

SpecCascade == Init /\ [][NextCascade]_vars

(* ------------------- two location updates at once ------------------------ *)
\* one user creates a contact and starts a trip, then reports two different
\* positions on two connections at once
HandleRace ==
    \/ CreateContact(1, "u1", ContactBody({"name", "phoneNumber"}, "John Doe", "+1234567890"))
    \/ \E b \in StartBodies : ~MissingRequired(b, StartRequired) /\ Start(1, "u1", b)
    \/ StartInsert(1)
    \/ StartSend(1)
    \/ \E t \in TripIds : UpdateLocation(1, "u1", t, CoordBody(LaterCoords))
    \/ \E t \in TripIds : UpdateLocation(2, "u1", t, CoordBody(SOSCoords))
    \/ \E s \in Slots : UpdateLocationInsert(s)
    \/ \E s \in Slots : UpdateLocationSet(s)
    \/ \E s \in Slots : UpdateLocationSend(s)
    \/ \E s \in Slots : Respond(s)

NextRace == HandleRace

SpecRace == Init /\ [][NextRace]_vars

(* ------------------------ the trips test sequence ------------------------ *)
\* one user creates a contact, starts a trip on it, reports a position,
\* triggers SOS and completes the trip, each once and in this order, and may
\* list the trips at any time
HandleSequence ==
    \/ /\ nextContactId = 1
       /\ CreateContact(1, "u1", ContactBody({"name", "phoneNumber"}, "John Doe", "+1234567890"))
    \/ /\ nextTripId = 1
       /\ \E c \in emergencyContacts :
             Start(1, "u1", StartBody(StartRequired \cup {"clothingDescription", "vehicleDescription"},
                                      c.id, "warm jacket and boots", "blue sedan", StartCoords))
    \/ StartInsert(1)
    \/ StartSend(1)
    \/ /\ nextLocId = 1
       /\ \E t \in trips : UpdateLocation(1, "u1", t.id, CoordBody(LaterCoords))
    \/ UpdateLocationInsert(1)
    \/ UpdateLocationSet(1)
    \/ UpdateLocationSend(1)
    \/ /\ nextLocId = 2
       /\ \E t \in trips : t.status = "active" /\ TriggerSOS(1, "u1", t.id, CoordBody(SOSCoords))
    \/ TriggerSOSInsert(1)
    \/ TriggerSOSSet(1)
    \/ TriggerSOSSend(1)
    \/ \E t \in trips : t.status = "sos" /\ t.endTime = NoTime /\ Complete(1, "u1", t.id)
    \/ CompleteSet(1)
    \/ CompleteSend(1)
    \/ ListTrips(1, "u1")
    \/ Respond(1)

NextSequence == HandleSequence

SpecSequence == Init /\ [][NextSequence]_vars

(* ---------------------- listing a long trip history ---------------------- *)
\* the trips table after u1 has started n1 trips on one contact and u2 then n2
\* trips on another; the clock moved by one between two Starts (tick = 1) or
\* between every second Start (tick = 2)
StartedTrips(n1, n2, tick) ==
    {NewTrip(Incoming("start", IF i <= n1 THEN "u1" ELSE "u2", 0,
                      StartBody(StartRequired, IF i <= n1 THEN 1 ELSE 2, Null, Null,
                                StartCoords)),
             i, (i + tick - 1) \div tick) : i \in 1..(n1 + n2)}

InitPage ==
    \E n1 \in 0..MaxListed, n2 \in 0..1, tick \in 1..2 :
        /\ emergencyContacts =
              {[id |-> 1, userId |-> "u1", name |-> "John Doe",
                phoneNumber |-> "+1234567890", createdAt |-> 0],
               [id |-> 2, userId |-> "u2", name |-> "John Doe",
                phoneNumber |-> "+1234567890", createdAt |-> 0]}
        /\ trips = StartedTrips(n1, n2, tick)
        /\ locationUpdates = <<>>
        /\ nextContactId = 3
        /\ nextTripId = n1 + n2 + 1
        /\ nextLocId = 1
        /\ now = (n1 + n2 + tick - 1) \div tick
        /\ req = [s \in Slots |-> Idle]
        /\ home = HomeInit
        /\ tripProvider = ProviderInit

NextPage ==
    \/ \E u \in Sessions : ListTrips(1, u)
    \/ Respond(1)

SpecPage == InitPage /\ [][NextPage]_vars

(* --------------------- positions of every precision ---------------------- *)
\* positions with up to 8 fractional digits: 4 digits only, half-way between
\* two 4-digit values, rounding up into the next integer, below 0.00005 in
\* magnitude, and 8 digits in full
ReportedPositions ==
    { [latitude |-> Dec(FALSE, 40, 71280000), longitude |-> Dec(TRUE, 74, 600000)],
      [latitude |-> Dec(FALSE, 40, 75805000), longitude |-> Dec(TRUE, 73, 98555000)],
      [latitude |-> Dec(FALSE, 40, 99996000), longitude |-> Dec(TRUE, 0, 4000)],
      [latitude |-> Dec(FALSE, 40, 99995000), longitude |-> Dec(FALSE, 179, 99995000)],
      [latitude |-> Dec(FALSE, 0, 3125000), longitude |-> Dec(TRUE, 0, 3125000)],
      [latitude |-> Dec(FALSE, 40, 71283456), longitude |-> Dec(TRUE, 74, 604999)],
      [latitude |-> Dec(FALSE, 89, 99999999), longitude |-> Dec(TRUE, 179, 99999999)],
      [latitude |-> Dec(FALSE, 0, 0), longitude |-> Dec(FALSE, 0, 0)] }

\* u1 has one emergency contact
InitWithContact ==
    /\ emergencyContacts =
          {[id |-> 1, userId |-> "u1", name |-> "John Doe",
            phoneNumber |-> "+1234567890", createdAt |-> 0]}
    /\ trips = {}
    /\ locationUpdates = <<>>
    /\ nextContactId = 2
    /\ nextTripId = 1
    /\ nextLocId = 1
    /\ now = 0
    /\ req = [s \in Slots |-> Idle]
    /\ home = HomeInit
    /\ tripProvider = ProviderInit

\* u1 starts one trip and reports one later position, each from any of the
\* positions above
HandleDecimal ==
    \/ /\ nextTripId = 1
       /\ \E p \in ReportedPositions :
             Start(1, "u1", StartBody(StartRequired, 1, Null, Null, p))
    \/ StartInsert(1)
    \/ StartSend(1)
    \/ /\ nextLocId = 1
       /\ \E t \in trips, p \in ReportedPositions :
             UpdateLocation(1, "u1", t.id, CoordBody(p))
    \/ UpdateLocationInsert(1)
    \/ UpdateLocationSet(1)
    \/ UpdateLocationSend(1)
    \/ Respond(1)

NextDecimal == HandleDecimal

SpecDecimal == InitWithContact /\ [][NextDecimal]_vars

(* ------------------- trips with and without descriptions ----------------- *)
\* a Start body with the clothing and the vehicle description each left out,
\* empty or filled in
DescribedBodies ==
    { StartBody(StartRequired
                  \cup (IF c = Null THEN {} ELSE {"clothingDescription"})
                  \cup (IF v = Null THEN {} ELSE {"vehicleDescription"}),
                1, c, v, StartCoords) :
        c \in {Null, "", "warm jacket and boots"}, v \in {Null, "", "blue sedan"} }

\* u1 starts one trip, then reports a position, triggers SOS and completes the
\* trip, each at most once and in any order
HandleNotify ==
    \/ /\ nextTripId = 1
       /\ \E b \in DescribedBodies : Start(1, "u1", b)
    \/ StartInsert(1)
    \/ StartSend(1)
    \/ /\ nextLocId = 1
       /\ \E t \in trips : UpdateLocation(1, "u1", t.id, CoordBody(LaterCoords))
    \/ UpdateLocationInsert(1)
    \/ UpdateLocationSet(1)
    \/ UpdateLocationSend(1)
    \/ \E t \in trips : t.status # "sos" /\ TriggerSOS(1, "u1", t.id, CoordBody(SOSCoords))
    \/ TriggerSOSInsert(1)
    \/ TriggerSOSSet(1)
    \/ TriggerSOSSend(1)
    \/ \E t \in trips : t.endTime = NoTime /\ Complete(1, "u1", t.id)
    \/ CompleteSet(1)
    \/ CompleteSend(1)
    \/ Respond(1)

NextNotify == HandleNotify

SpecNotify == InitWithContact /\ [][NextNotify]_vars

(* ------------- a position reported while the trip is finished ------------ *)
\* u1 starts one trip and reports positions on one connection while Complete
\* and TriggerSOS requests on the same trip arrive on the other
HandleFinishRace ==
    \/ /\ nextTripId = 1
       /\ Start(1, "u1", StartBody(StartRequired, 1, Null, Null, StartCoords))
    \/ StartInsert(1)
    \/ StartSend(1)
    \/ \E t \in trips : UpdateLocation(1, "u1", t.id, CoordBody(LaterCoords))
    \/ UpdateLocationInsert(1)
    \/ UpdateLocationSet(1)
    \/ UpdateLocationSend(1)
    \/ \E t \in trips : Complete(2, "u1", t.id)
    \/ CompleteSet(2)
    \/ CompleteSend(2)
    \/ \E t \in trips : TriggerSOS(2, "u1", t.id, CoordBody(SOSCoords))
    \/ TriggerSOSInsert(2)
    \/ TriggerSOSSet(2)
    \/ TriggerSOSSend(2)
    \/ \E s \in Slots : Respond(s)

NextFinishRace == HandleFinishRace

SpecFinishRace == InitWithContact /\ [][NextFinishRace]_vars

(* --------------------------- the home screen ----------------------------- *)
\* the home screen of user u1, who has one emergency contact, and the backend
\* handling its requests
HandleHome ==
    \/ RequestLocationPermission
    \/ CheckActiveTripSends
    \/ CheckActiveTripResumes
    \/ StartTrip
    \/ StartTripSends
    \/ StartInsert(2)
    \/ StartSend(2)
    \/ StartTripResumes
    \/ StartTripAfterSMS
    \/ LocationTimerFires
    \/ UpdateTripLocationPosition
    \/ UpdateTripLocationSends
    \/ UpdateLocationInsert(1)
    \/ UpdateLocationSet(1)
    \/ UpdateLocationSend(1)
    \/ UpdateTripLocationResumes
    \/ UpdateTripLocationAfterSMS
    \/ CompleteTrip
    \/ CompleteTripSends
    \/ CompleteSet(2)
    \/ CompleteSend(2)
    \/ CompleteTripResumes
    \/ CompleteTripAfterSMS
    \/ TriggerSOSPressed
    \/ TriggerSOSSends
    \/ TriggerSOSInsert(2)
    \/ TriggerSOSSet(2)
    \/ TriggerSOSSend(2)
    \/ TriggerSOSResumes
    \/ TriggerSOSAfterSMS

NextHome == HandleHome

SpecHome == InitWithContact /\ [][NextHome]_vars

(* --------------------------- the trip provider --------------------------- *)
NextProvider ==
    \/ \E trip \in ProviderTrips \cup {<<>>} : ProviderSetActiveTrip(trip)
    \/ ProviderEffectRuns
    \/ ProviderTimerFires

SpecProvider == Init /\ [][NextProvider]_vars

(* =============================== claims ================================= *)

\* a request arrives on connection s in this step
Arrives(s) == req[s].pc = "idle" /\ req'[s].pc # "idle"

\* the request on connection s is answered in the step in which it arrives
AnsweredAtOnce(s, code) ==
    req'[s].pc = "done" /\ req'[s].status = code /\ req'[s].sms = <<>>

OwnsTrip(userId, id) == \E t \in trips : t.id = id /\ t.userId = userId

(* C1, as stated: once a trip's status is completed or sos, no step changes
   it. *)
C1_TerminalStatusIsFinal ==
    [][\A t \in trips : \A t2 \in trips' :
          (t2.id = t.id /\ t.status \in {"completed", "sos"})
              => t2.status = t.status]_vars

(* C1, amended: a trip's status changes only to completed, by the update of a
   Complete request on that trip, or to sos, by the update of a TriggerSOS
   request on that trip; it never changes back to active, and Start and
   UpdateLocation change no existing trip's status. *)
C1_StatusChangesOnlyByCompleteOrSOS ==
    [][\A t \in trips : \A t2 \in trips' :
          (t2.id = t.id /\ t2.status # t.status)
              => \E s \in Slots :
                    /\ req[s].pc = "update" /\ req[s].id = t.id
                    /\ \/ req[s].op = "complete" /\ t2.status = "completed"
                       \/ req[s].op = "sos" /\ t2.status = "sos"]_vars

\* a Complete request has succeeded on a trip whose status was sos
C1_CompletedAfterSOS ==
    \E s \in Slots :
        /\ req[s].op = "complete" /\ req[s].pc = "done" /\ req[s].status = 200
        /\ req[s].found[1].trip.status = "sos"
        /\ req[s].result[1].status = "completed"

(* C2: in every reachable state each user owns at most one trip whose status
   is active. *)
C2_AtMostOneActiveTripPerUser ==
    \A u \in Users :
        Cardinality({t \in trips : t.userId = u /\ t.status = "active"}) <= 1

(* C3: UpdateLocation by the owner on a trip whose status is completed or sos
   is answered 400 and changes no table and dispatches no SMS; and the writes
   of an UpdateLocation request are made only to a trip that is active, so
   none succeeds on a trip once Complete has succeeded on it. *)
C3_NoLocationUpdateOnFinishedTrip ==
    [][\A s \in Slots :
          /\ (/\ Arrives(s) /\ req'[s].op = "location"
              /\ \E t \in trips : /\ t.id = req'[s].id
                                   /\ t.userId = req'[s].session
                                   /\ t.status \in {"completed", "sos"})
                => AnsweredAtOnce(s, 400) /\ UNCHANGED <<store, ids>>
          /\ (req[s].op = "location" /\ req[s].pc \in {"insert", "update"}
                  /\ store' # store)
                => \A t \in trips : t.id = req[s].id => t.status = "active"]_vars

\* the owner's UpdateLocation on a completed trip has been answered 400
C3_RejectedOnCompletedTrip ==
    \E s \in Slots : \E t \in trips :
        /\ req[s].op = "location" /\ req[s].pc = "done" /\ req[s].status = 400
        /\ t.id = req[s].id /\ t.userId = req[s].session
        /\ t.status = "completed" /\ t.endTime # NoTime

(* C4: UpdateLocation, TriggerSOS and Complete by a signed-in user on a trip
   id that does not exist or belongs to another user are answered 404, change
   no table and dispatch no SMS. *)
C4_ForeignOrMissingTripIs404 ==
    [][\A s \in Slots :
          (/\ Arrives(s) /\ req'[s].op \in {"location", "sos", "complete"}
           /\ req'[s].session \in Users
           /\ ~OwnsTrip(req'[s].session, req'[s].id))
             => AnsweredAtOnce(s, 404) /\ UNCHANGED <<store, ids>>]_vars

\* a TriggerSOS on another user's active trip has been answered 404
C4_ForeignSOSRejected ==
    \E s \in Slots : \E t \in trips :
        /\ req[s].op = "sos" /\ req[s].pc = "done" /\ req[s].status = 404
        /\ req[s].session \in Users
        /\ t.id = req[s].id /\ t.userId # req[s].session /\ t.status = "active"

(* C5: Update and Delete of a contact by a signed-in user who does not own it
   are answered 404 and change no table (the contact and its trips stay as
   they were), and List returns only contacts owned by the caller. *)
C5_ContactsAreOwnerOnly ==
    [][\A s \in Slots :
          /\ (/\ Arrives(s) /\ req'[s].op \in {"updateContact", "deleteContact"}
              /\ req'[s].session \in Users
              /\ \E c \in emergencyContacts :
                    c.id = req'[s].id /\ c.userId # req'[s].session)
                => AnsweredAtOnce(s, 404) /\ UNCHANGED <<store, ids>>
          /\ (Arrives(s) /\ req'[s].op = "listContacts" /\ req'[s].status = 200)
                => /\ \A c \in req'[s].result : c.userId = req'[s].session
                   /\ UNCHANGED <<store, ids>>]_vars

\* a Delete by another user of a contact that has a trip has been answered 404
C5_ForeignDeleteRejected ==
    \E s \in Slots : \E c \in emergencyContacts :
        /\ req[s].op = "deleteContact" /\ req[s].pc = "done" /\ req[s].status = 404
        /\ req[s].session \in Users
        /\ c.id = req[s].id /\ c.userId # req[s].session
        /\ \E t \in trips : t.emergencyContactId = c.id

(* C6: Start by a signed-in user with an emergencyContactId that resolves to
   no contact owned by the caller is answered 400, creates no trip and
   dispatches no SMS. *)
C6_StartNeedsOwnContact ==
    [][\A s \in Slots :
          (/\ Arrives(s) /\ req'[s].op = "start" /\ req'[s].session \in Users
           /\ \A c \in emergencyContacts :
                 ~(c.id = req'[s].body.emergencyContactId
                   /\ c.userId = req'[s].session))
             => AnsweredAtOnce(s, 400) /\ UNCHANGED <<store, ids>>]_vars

\* a Start naming another user's contact has been answered 400
C6_ForeignContactRejected ==
    \E s \in Slots : \E c \in emergencyContacts :
        /\ req[s].op = "start" /\ req[s].pc = "done" /\ req[s].status = 400
        /\ req[s].session \in Users
        /\ "emergencyContactId" \in req[s].body.fields
        /\ c.id = req[s].body.emergencyContactId /\ c.userId # req[s].session

(* C7: Create contact by a signed-in user with a name or phone number that is
   missing or is the empty string is answered 400 and persists no row. *)
C7_EmptyOrMissingFieldIs400 ==
    [][\A s \in Slots :
          (/\ Arrives(s) /\ req'[s].op = "createContact"
           /\ req'[s].session \in Users
           /\ \/ MissingRequired(req'[s].body, CreateContactRequired)
              \/ req'[s].body.name = ""
              \/ req'[s].body.phoneNumber = "")
             => AnsweredAtOnce(s, 400) /\ UNCHANGED <<store, ids>>]_vars

(* C8: every request whose identity cannot be resolved is answered 401. *)
C8_AnonymousIs401 ==
    \A s \in Slots :
        (req[s].pc = "done" /\ req[s].session = NoSession) => req[s].status = 401

(* C9: in Start, UpdateLocation, Complete and TriggerSOS the SMS is dispatched
   only after the trip write (and, for location and sos, the LocationUpdate
   row) is in the store; the dispatch step changes no table whatever its
   outcome, and the request is answered with its success response. *)
C9_DispatchAfterCommit ==
    [][\A s \in Slots :
          Len(req'[s].sms) > Len(req[s].sms)
             => /\ UNCHANGED <<store, ids>>
                /\ req[s].updated # <<>>
                /\ req[s].updated[1] \in trips
                /\ req[s].op \in {"location", "sos"}
                     => \E i \in 1..Len(locationUpdates) :
                           /\ locationUpdates[i].tripId = req[s].id
                           /\ locationUpdates[i].latitude = req[s].body.latitude
                           /\ locationUpdates[i].longitude = req[s].body.longitude
                           /\ locationUpdates[i].timestamp = req[s].now
                /\ req'[s].pc = "done"
                /\ req'[s].status = (IF req[s].op = "start" THEN 201 ELSE 200)
                /\ req'[s].result[1].id = req[s].updated[1].id]_vars

\* an UpdateLocation whose SMS the provider rejected has been answered 200
C9_SucceededDespiteProviderFailure ==
    \E s \in Slots :
        /\ req[s].op = "location" /\ req[s].pc = "done" /\ req[s].status = 200
        /\ Len(req[s].sms) = 1 /\ req[s].sms[1].provider = "rejected"
        /\ req[s].updated[1] \in trips

(* C10: sendSMS never raises; with the account SID, the auth token or the
   from-number missing it returns false without calling the provider; it
   returns false when the provider call fails and true only when the provider
   call succeeded. *)
C10_SendSMSNeverRaises ==
    \A s \in Slots : \A i \in 1..Len(req[s].sms) :
        LET m == req[s].sms[i]
            missing == m.env.accountSid = "" \/ m.env.authToken = ""
                       \/ m.env.fromNumber = ""
        IN  /\ ~m.threw
            /\ missing => (m.provider = "not called" /\ ~m.returned)
            /\ ~missing => m.provider \in ProviderOutcomes
            /\ m.provider = "rejected" => ~m.returned
            /\ m.returned <=> m.provider = "accepted"

\* sendSMS has returned false without calling the provider because only the
\* from-number was missing
C10_SkippedWithoutFromNumber ==
    \E s \in Slots : \E i \in 1..Len(req[s].sms) :
        LET m == req[s].sms[i]
        IN  /\ m.env.accountSid # "" /\ m.env.authToken # "" /\ m.env.fromNumber = ""
            /\ m.provider = "not called" /\ ~m.returned /\ ~m.threw

\* the request on connection s moves from one awaited statement to the next
Moves(s, from, to) == req[s].pc = from /\ req'[s].pc = to

(* C11: the insert of an UpdateLocation or TriggerSOS request appends exactly
   one LocationUpdate row with the request's trip id and the supplied
   latitude/longitude, and no other step of the request touches the history;
   its update leaves the trip's last latitude/longitude equal to the supplied
   values; the insert of a Start request adds exactly one trip row, with
   status active and start and last coordinates equal to the supplied ones,
   and no other step of a Start touches the trips. *)
C11_WritesCarrySuppliedCoordinates ==
    [][\A s \in Slots :
          LET r == req[s]
          IN  /\ (r.op \in {"location", "sos"} /\ Moves(s, "insert", "update"))
                 => /\ Len(locationUpdates') = Len(locationUpdates) + 1
                    /\ SubSeq(locationUpdates', 1, Len(locationUpdates)) = locationUpdates
                    /\ LET l == locationUpdates'[Len(locationUpdates')]
                       IN  /\ l.tripId = r.id
                           /\ l.latitude = r.body.latitude
                           /\ l.longitude = r.body.longitude
              /\ (r.op \in {"location", "sos"} /\ r.pc # "insert")
                 => locationUpdates' = locationUpdates
              /\ (r.op \in {"location", "sos"} /\ Moves(s, "update", "sms"))
                 => /\ req'[s].updated # <<>>
                    /\ \A t \in trips' : t.id = r.id =>
                          /\ t.lastLatitude = r.body.latitude
                          /\ t.lastLongitude = r.body.longitude
                    /\ \A t \in trips' : t.id # r.id => t \in trips
              /\ (r.op = "start" /\ Moves(s, "insert", "sms"))
                 => \E t \in trips' :
                       /\ t \notin trips /\ trips' = trips \cup {t}
                       /\ \A x \in trips : x.id # t.id
                       /\ t.status = "active" /\ t.userId = r.session
                       /\ t.startLatitude = r.body.latitude
                       /\ t.startLongitude = r.body.longitude
                       /\ t.lastLatitude = r.body.latitude
                       /\ t.lastLongitude = r.body.longitude
              /\ (r.op = "start" /\ ~Moves(s, "insert", "sms"))
                 => trips' = trips
              /\ (r.op \in {"start", "location", "sos"} /\ r.pc = "sms"
                    /\ req'[s].pc = "done")
                 => req'[s].status \in {200, 201}]_vars

\* a TriggerSOS has been answered 200 and the trip and the last history row
\* carry the coordinates it supplied
C11_SOSRecorded ==
    \E s \in Slots : \E t \in trips :
        /\ req[s].op = "sos" /\ req[s].pc = "done" /\ req[s].status = 200
        /\ t.id = req[s].id /\ t.status = "sos"
        /\ t.lastLatitude = SOSCoords.latitude
        /\ t.lastLongitude = SOSCoords.longitude
        /\ Len(locationUpdates) > 0
        /\ locationUpdates[Len(locationUpdates)].tripId = t.id
        /\ locationUpdates[Len(locationUpdates)].latitude = SOSCoords.latitude

\* every trip references an existing contact and every LocationUpdate an
\* existing trip
ReferencesResolve ==
    /\ \A t \in trips : \E c \in emergencyContacts : c.id = t.emergencyContactId
    /\ \A i \in 1..Len(locationUpdates) :
          \E t \in trips : t.id = locationUpdates[i].tripId

(* C12: in every state every trip references an existing contact and every
   LocationUpdate references an existing trip; the delete of a Delete(contact)
   request is answered 200 and removes that contact, exactly the trips that
   reference it and exactly the LocationUpdates of those trips, and every
   other row stays as it was. *)
C12_ReferencesResolveAndDeleteCascades ==
    [][/\ ReferencesResolve /\ ReferencesResolve'
       /\ \A s \in Slots :
             (req[s].op = "deleteContact" /\ Moves(s, "delete", "done"))
                => LET id == req[s].id
                       keptTrips == {t \in trips : t.emergencyContactId # id}
                       keptLocs == SelectSeq(locationUpdates,
                                     LAMBDA l : \E t \in keptTrips : t.id = l.tripId)
                   IN  /\ req'[s].status = 200
                       /\ emergencyContacts' = {c \in emergencyContacts : c.id # id}
                       /\ trips' = keptTrips
                       /\ locationUpdates' = keptLocs]_vars

\* a contact has been deleted together with its trip and that trip's
\* LocationUpdate, while the other contact, its trip and its LocationUpdate
\* are still there
C12_CascadeSparedTheOtherContact ==
    \E s \in Slots :
        /\ req[s].op = "deleteContact" /\ req[s].pc = "done" /\ req[s].status = 200
        /\ nextContactId = 3 /\ nextTripId = 3 /\ nextLocId = 3
        /\ Cardinality(emergencyContacts) = 1
        /\ Cardinality(trips) = 1
        /\ Len(locationUpdates) = 1
        /\ \A c \in emergencyContacts : c.id # req[s].id
        /\ \A t \in trips : locationUpdates[1].tripId = t.id

\* both connections hold the answer to an UpdateLocation that found the same
\* trip active
BothLocated ==
    /\ \A s \in Slots : /\ req[s].op = "location" /\ req[s].pc = "done"
                         /\ req[s].found # <<>>
    /\ req[1].id = req[2].id

(* C13: when two UpdateLocation requests on the same active trip have both
   been handled, however their steps interleaved, both were answered 200, the
   history holds a LocationUpdate row with each request's coordinates, and
   the trip's last latitude/longitude is the coordinate pair of one of the
   two requests. *)
C13_RacingUpdatesKeepBothRows ==
    BothLocated =>
        /\ \A s \in Slots :
              /\ req[s].status = 200
              /\ \E i \in 1..Len(locationUpdates) :
                    /\ locationUpdates[i].tripId = req[s].id
                    /\ locationUpdates[i].latitude = req[s].body.latitude
                    /\ locationUpdates[i].longitude = req[s].body.longitude
                    /\ locationUpdates[i].timestamp = req[s].now
        /\ \E t \in trips : t.id = req[1].id
        /\ \A t \in trips : t.id = req[1].id =>
              \E s \in Slots : /\ t.lastLatitude = req[s].body.latitude
                               /\ t.lastLongitude = req[s].body.longitude

\* the two requests overlapped: the one whose row was appended last is not the
\* one whose coordinates the trip ended up with
C13_LastRowIsNotLastWrite ==
    /\ BothLocated
    /\ Len(locationUpdates) = 2
    /\ locationUpdates[1].latitude = SOSCoords.latitude
    /\ locationUpdates[2].latitude = LaterCoords.latitude
    /\ \E t \in trips : /\ t.id = req[1].id
                        /\ t.lastLatitude = SOSCoords.latitude
                        /\ t.lastLongitude = SOSCoords.longitude

(* C14: in every step other than the delete of a Delete(contact) request,
   each LocationUpdate row that existed before the step is still there after
   it, at the same place in the history and with the same id, trip id,
   latitude, longitude and timestamp. *)
C14_HistoryIsAppendOnly ==
    [][(\A s \in Slots : ~(req[s].op = "deleteContact" /\ Moves(s, "delete", "done")))
          => /\ Len(locationUpdates') >= Len(locationUpdates)
             /\ \A i \in 1..Len(locationUpdates) :
                   locationUpdates'[i] = locationUpdates[i]]_vars

\* the row of an UpdateLocation is still first in the history after a
\* TriggerSOS and a Complete on the same trip
C14_FirstRowOutlivedSOSAndComplete ==
    \E s \in Slots :
        /\ req[s].op = "complete" /\ req[s].pc = "done" /\ req[s].status = 200
        /\ Len(locationUpdates) = 2
        /\ locationUpdates[1].tripId = req[s].id
        /\ locationUpdates[1].latitude = LaterCoords.latitude
        /\ locationUpdates[2].tripId = req[s].id
        /\ locationUpdates[2].latitude = SOSCoords.latitude

(* C15: the update of a Complete request sets the trip's status to completed
   and its end time to a non-null value and changes no other field of the
   trip (start and last coordinates, last-update timestamp, contact
   reference), no other trip, no contact and no LocationUpdate row; the
   request is then answered 200 with a projection that carries that end time,
   and answering changes no table. *)
C15_CompleteSetsStatusAndEndTimeOnly ==
    [][\A s \in Slots :
          /\ (req[s].op = "complete" /\ Moves(s, "update", "sms"))
             => /\ UNCHANGED <<emergencyContacts, locationUpdates, ids>>
                /\ \E t \in trips : \E end \in Times :
                      /\ t.id = req[s].id
                      /\ end # NoTime
                      /\ trips' = (trips \ {t})
                            \cup {[t EXCEPT !.status = "completed", !.endTime = end]}
                      /\ req'[s].updated =
                            <<[t EXCEPT !.status = "completed", !.endTime = end]>>
          /\ (req[s].op = "complete" /\ Moves(s, "sms", "done"))
             => /\ UNCHANGED <<store, ids>>
                /\ req'[s].status = 200
                /\ req'[s].result[1].id = req[s].id
                /\ req'[s].result[1].status = "completed"
                /\ req'[s].result[1].endTime = req[s].updated[1].endTime
                /\ req'[s].result[1].endTime # NoTime]_vars

\* a Complete has been answered 200 with an end time, and the trip still has
\* the last coordinates and the history row of the UpdateLocation before it
C15_CompletedKeepsLastLocation ==
    \E s \in Slots : \E t \in trips :
        /\ req[s].op = "complete" /\ req[s].pc = "done" /\ req[s].status = 200
        /\ req[s].result[1].endTime # NoTime
        /\ t.id = req[s].id /\ t.status = "completed"
        /\ t.endTime = req[s].result[1].endTime
        /\ t.startLatitude = StartCoords.latitude
        /\ t.lastLatitude = LaterCoords.latitude
        /\ t.lastLongitude = LaterCoords.longitude
        /\ Len(locationUpdates) = 1 /\ locationUpdates[1].tripId = t.id

(* C16: after create contact, Start, UpdateLocation, TriggerSOS and Complete
   by one user, a listing of that user's trips shows exactly one trip; its
   status is completed (the last transition applied), its end time is not
   null, and the history holds exactly two LocationUpdate rows, both of that
   trip: the reported position and then the sos position. *)
C16_SequenceEndsWithOneCompletedTrip ==
    \A s \in Slots :
        (/\ req[s].op = "listTrips" /\ req[s].pc = "done"
         /\ \E t \in trips : t.endTime # NoTime)
           => /\ req[s].status = 200
              /\ Len(req[s].result) = 1
              /\ req[s].result[1].status = "completed"
              /\ req[s].result[1].endTime # NoTime
              /\ Len(locationUpdates) = 2
              /\ \A i \in 1..2 : locationUpdates[i].tripId = req[s].result[1].id
              /\ locationUpdates[1].latitude = LaterCoords.latitude
              /\ locationUpdates[1].longitude = LaterCoords.longitude
              /\ locationUpdates[2].latitude = SOSCoords.latitude
              /\ locationUpdates[2].longitude = SOSCoords.longitude

\* the trips have been listed after the Complete that ended the sequence
C16_ListedAfterTheSequence ==
    \E s \in Slots : \E t \in trips :
        /\ req[s].op = "listTrips" /\ req[s].pc = "done" /\ req[s].status = 200
        /\ t.status = "completed" /\ t.endTime # NoTime
        /\ nextContactId = 2 /\ nextTripId = 2 /\ nextLocId = 3
        /\ Len(req[s].result) = 1 /\ req[s].result[1].id = t.id

(* C17: ListRecent by a signed-in user is answered 200 with only trips the
   caller owns, each at most once, at most 20 of them and all of them when
   the caller owns no more than 20, in descending order of creation time, and
   no trip of the caller left out was created after a listed one; the call
   changes no table. *)
C17_ListIsNewestTwentyOfCaller ==
    [][\A s \in Slots :
          (Arrives(s) /\ req'[s].op = "listTrips" /\ req'[s].session \in Users)
             => LET page == req'[s].result
                    mine == {t \in trips : t.userId = req'[s].session}
                    listed == {page[i].id : i \in 1..Len(page)}
                IN  /\ UNCHANGED <<store, ids>>
                    /\ AnsweredAtOnce(s, 200)
                    /\ \A i \in 1..Len(page) :
                          \E t \in mine : /\ t.id = page[i].id
                                          /\ t.createdAt = page[i].createdAt
                                          /\ page[i].userId = req'[s].session
                    /\ \A i, j \in 1..Len(page) : i # j => page[i].id # page[j].id
                    /\ Len(page) <= 20
                    /\ Len(page) = (IF Cardinality(mine) > 20 THEN 20 ELSE Cardinality(mine))
                    /\ \A i, j \in 1..Len(page) :
                          i < j => page[i].createdAt >= page[j].createdAt
                    /\ \A t \in mine : t.id \notin listed =>
                          \A i \in 1..Len(page) : t.createdAt <= page[i].createdAt]_vars

\* a user who owns more than 20 trips has been shown 20 of them, and another
\* user's trip is in the table
C17_TwentyOfTwentyTwoListed ==
    \E s \in Slots :
        /\ req[s].op = "listTrips" /\ req[s].pc = "done" /\ req[s].status = 200
        /\ Cardinality({t \in trips : t.userId = req[s].session}) > 20
        /\ \E t \in trips : t.userId # req[s].session
        /\ Len(req[s].result) = 20

(* C18: GetActive by a signed-in user is answered 200 and changes no table;
   the answer is null exactly when the caller owns no trip with status
   active, and otherwise it is a trip the caller owns whose status is active,
   with the name and phone number of that trip's contact. *)
C18_GetActiveIsCallersActiveTrip ==
    [][\A s \in Slots :
          (Arrives(s) /\ req'[s].op = "getActive" /\ req'[s].session \in Users)
             => LET answer == req'[s].result
                    mine == {t \in trips : /\ t.userId = req'[s].session
                                           /\ t.status = "active"}
                IN  /\ UNCHANGED <<store, ids>>
                    /\ AnsweredAtOnce(s, 200)
                    /\ answer = <<>> <=> mine = {}
                    /\ answer # <<>> =>
                          \E t \in mine : \E c \in emergencyContacts :
                             /\ answer[1].id = t.id
                             /\ answer[1].status = "active"
                             /\ c.id = t.emergencyContactId
                             /\ answer[1].emergencyContact.name = c.name
                             /\ answer[1].emergencyContact.phoneNumber = c.phoneNumber]_vars

\* GetActive has answered null to a user while another user's trip is active
C18_NullWhileAnotherUsersTripIsActive ==
    \E s \in Slots : \E t \in trips :
        /\ req[s].op = "getActive" /\ req[s].pc = "done" /\ req[s].status = 200
        /\ req[s].session \in Users /\ req[s].result = <<>>
        /\ t.status = "active" /\ t.userId # req[s].session

(* C19: the update of an Update request on a contact the caller owns, for
   every subset of {name, phoneNumber} supplied, the empty one included, is
   answered 200 with the updated row: the supplied fields have the supplied
   values, every other field of the contact is as before, and no other
   contact and no trip changes. *)
C19_UpdateSetsExactlySuppliedFields ==
    [][\A s \in Slots :
          (req[s].op = "updateContact" /\ Moves(s, "update", "done"))
             => LET r == req[s]
                    old == r.found[1]
                    new == [old EXCEPT
                              !.name = IF "name" \in r.body.fields
                                       THEN r.body.name ELSE @,
                              !.phoneNumber = IF "phoneNumber" \in r.body.fields
                                              THEN r.body.phoneNumber ELSE @]
                IN  /\ req'[s].status = 200
                    /\ req'[s].result = <<new>>
                    /\ emergencyContacts' = (emergencyContacts \ {old}) \cup {new}
                    /\ UNCHANGED <<trips, locationUpdates, ids>>]_vars

\* a coordinate presented with 4 fractional digits
FourDigits(x) == DOMAIN x = {"neg", "int", "frac4"}

(* C20: every trip projection that carries coordinates - the answers of Start,
   UpdateLocation, TriggerSOS, ListRecent and a non-null GetActive - presents
   lastLatitude/lastLongitude with exactly 4 fractional digits, while the
   stored trip row keeps the coordinates as they were submitted. *)
C20_ProjectionsShowFourDigits ==
    \A s \in Slots :
        LET r == req[s]
        IN  /\ (/\ r.pc = "done" /\ r.status \in {200, 201}
                /\ r.op \in {"start", "location", "sos", "getActive"}
                /\ r.result # <<>>)
               => /\ FourDigits(r.result[1].lastLatitude)
                  /\ FourDigits(r.result[1].lastLongitude)
            /\ (r.pc = "done" /\ r.status = 200 /\ r.op = "listTrips")
               => \A i \in 1..Len(r.result) :
                     /\ FourDigits(r.result[i].lastLatitude)
                     /\ FourDigits(r.result[i].lastLongitude)
            /\ (/\ r.pc = "done" /\ r.status \in {200, 201}
                /\ r.op \in {"start", "location", "sos"})
               => \A t \in trips : t.id = r.result[1].id =>
                     /\ t.lastLatitude = r.body.latitude
                     /\ t.lastLongitude = r.body.longitude

\* r is a 4-digit decimal nearest to the 8-digit decimal x, with the sign of x
Nearest4(x, r) ==
    /\ r.neg = x.neg
    /\ r.frac4 \in 0..9999
    /\ r.int - x.int \in {0, 1}
    /\ LET d == (r.int - x.int) * 100000000 + r.frac4 * 10000 - x.frac
       IN  d <= 5000 /\ -d <= 5000

\* r is x with its last four (zero) digits dropped
Unpadded(x, r) ==
    x.frac % 10000 = 0 => (r.neg = x.neg /\ r.int = x.int /\ r.frac4 * 10000 = x.frac)

\* the coordinates a Start or UpdateLocation was answered with, next to the
\* ones it supplied
AnsweredCoordinates ==
    UNION {{<<req[s].body.latitude, req[s].result[1].lastLatitude>>,
            <<req[s].body.longitude, req[s].result[1].lastLongitude>>} :
              s \in {x \in Slots : /\ req[x].op \in {"start", "location"}
                                   /\ req[x].pc = "done"
                                   /\ req[x].status \in {200, 201}}}

(* C21, as stated: the lastLatitude/lastLongitude returned by Start and
   UpdateLocation is the submitted value rounded to 4 fractional digits, with
   the sign and the integer part of the submitted value; a value with at most
   4 fractional digits comes back unchanged. *)
C21_RoundedWithIntegerPartPreserved ==
    \A a \in AnsweredCoordinates :
        /\ Nearest4(a[1], a[2])
        /\ a[2].int = a[1].int
        /\ Unpadded(a[1], a[2])

(* C21, amended: the lastLatitude/lastLongitude returned by Start and
   UpdateLocation is a 4-digit decimal nearest to the submitted value (at most
   0.00005 from it) with the sign of the submitted value; its integer part is
   that of the submitted value, or one more when the fraction rounds up to
   1.0000; a value with at most 4 fractional digits comes back unchanged. *)
C21_NearestFourDigitValue ==
    \A a \in AnsweredCoordinates :
        /\ Nearest4(a[1], a[2])
        /\ a[2].int = a[1].int + (IF a[1].frac >= 99995000 /\ a[2].frac4 = 0 THEN 1 ELSE 0)
        /\ Unpadded(a[1], a[2])

\* a Start at 40.99996, -0.00004 has been answered with 41.0000, -0.0000
C21_RoundedUpToNextInteger ==
    \E s \in Slots :
        /\ req[s].op = "start" /\ req[s].pc = "done" /\ req[s].status = 201
        /\ req[s].body.latitude = Dec(FALSE, 40, 99996000)
        /\ req[s].result[1].lastLatitude = [neg |-> FALSE, int |-> 41, frac4 |-> 0]
        /\ req[s].body.longitude = Dec(TRUE, 0, 4000)
        /\ req[s].result[1].lastLongitude = [neg |-> TRUE, int |-> 0, frac4 |-> 0]

\* the lines of message m that begin with the literal text label
LinesOf(m, label) == {m[i] : i \in {k \in 1..Len(m) : m[k][1] = label}}

\* message m has a line for description d under label exactly when d is
\* present and not empty
Describes(m, label, d) ==
    LinesOf(m, label) = (IF d \in {Null, ""} THEN {} ELSE {<<label, d>>})

\* the message handed to sendSMS in this step by the request on connection s
Dispatched(s) == req'[s].sms[Len(req'[s].sms)].message

(* C22: the message dispatched by TriggerSOS is marked urgent, carries the
   supplied coordinates and has the clothing (vehicle) line exactly when the
   trip's stored clothing (vehicle) description is present and non-empty; the
   message of Start carries the activity type, the supplied coordinates and
   the optional descriptions under the same rule; the message of
   UpdateLocation carries the supplied coordinates and nothing else; the
   message of Complete carries no value at all, so no coordinates. *)
C22_MessageContentByEvent ==
    [][\A s \in Slots :
          Len(req'[s].sms) > Len(req[s].sms)
             => LET r == req[s]
                    m == Dispatched(s)
                IN  /\ r.op = "sos" =>
                          /\ m[1] = <<"SOS EMERGENCY ALERT">>
                          /\ m[2] = <<"URGENT: User needs help!">>
                          /\ m[Len(m)] = <<"Current Location: ", r.body.latitude, r.body.longitude>>
                          /\ \A t \in trips : t.id = r.id =>
                                /\ Describes(m, "Clothing: ", t.clothingDescription)
                                /\ Describes(m, "Vehicle: ", t.vehicleDescription)
                                /\ Len(m) = 3 + Cardinality(LinesOf(m, "Clothing: "))
                                              + Cardinality(LinesOf(m, "Vehicle: "))
                    /\ r.op = "start" =>
                          /\ m[1] = <<"SAFETY ALERT: Trip started">>
                          /\ m[2] = <<"Activity: ", r.body.activityType>>
                          /\ m[Len(m)] = <<"Location: ", r.body.latitude, r.body.longitude>>
                          /\ \A t \in trips : t.id = r.updated[1].id =>
                                /\ Describes(m, "Clothing: ", t.clothingDescription)
                                /\ Describes(m, "Vehicle: ", t.vehicleDescription)
                                /\ Len(m) = 3 + Cardinality(LinesOf(m, "Clothing: "))
                                              + Cardinality(LinesOf(m, "Vehicle: "))
                    /\ r.op = "location" =>
                          m = << <<"Location update: ", r.body.latitude, r.body.longitude>> >>
                    /\ r.op = "complete" =>
                          /\ Len(m) > 0
                          /\ \A i \in 1..Len(m) : Len(m[i]) = 1
                    /\ r.op \in {"sos", "start", "location", "complete"}]_vars

\* an SOS message has gone out for a trip stored with an empty clothing
\* description and a vehicle description: it has the vehicle line only
C22_SOSWithVehicleOnly ==
    \E s \in Slots : \E t \in trips :
        /\ req[s].op = "sos" /\ req[s].pc = "done" /\ req[s].status = 200
        /\ t.id = req[s].id
        /\ t.clothingDescription = "" /\ t.vehicleDescription = "blue sedan"
        /\ req[s].sms[1].message =
              << <<"SOS EMERGENCY ALERT">>, <<"URGENT: User needs help!">>,
                 <<"Vehicle: ", "blue sedan">>,
                 <<"Current Location: ", SOSCoords.latitude, SOSCoords.longitude>> >>

\* the literal text every message of a trip operation begins with
Opening(op) ==
    CASE op = "start" -> "SAFETY ALERT: Trip started"
      [] op = "location" -> "Location update: "
      [] op = "sos" -> "SOS EMERGENCY ALERT"
      [] op = "complete" -> "Trip completed and tracking stopped."

(* C23: a Start, UpdateLocation, Complete or TriggerSOS that has been answered
   200/201 has called sendSMS exactly once, with the message of its own type
   and the phone number now stored on the emergency contact of its trip; a
   request of any kind that has been answered 400, 401 or 404 has not called
   sendSMS. *)
C23_OneDispatchToStoredNumber ==
    \A s \in Slots :
        LET r == req[s]
        IN  /\ (/\ r.pc = "done" /\ r.status \in {200, 201}
                /\ r.op \in {"start", "location", "sos", "complete"})
               => /\ Len(r.sms) = 1
                  /\ r.sms[1].message[1][1] = Opening(r.op)
                  /\ \E t \in trips : \E c \in emergencyContacts :
                        /\ t.id = r.result[1].id
                        /\ c.id = t.emergencyContactId
                        /\ r.sms[1].to = c.phoneNumber
            /\ (r.pc = "done" /\ r.status \in {400, 401, 404})
               => r.sms = <<>>

\* an UpdateLocation has been answered 200 after the contact's phone number
\* was changed: its SMS went to the new number
C23_SentToUpdatedNumber ==
    \E s \in Slots : \E c \in emergencyContacts :
        /\ req[s].op = "location" /\ req[s].pc = "done" /\ req[s].status = 200
        /\ c.phoneNumber = "+0987654321"
        /\ Len(req[s].sms) = 1
        /\ req[s].sms[1].to = "+0987654321"
        /\ req[s].sms[1].message[1][1] = "Location update: "

(* C24: however an UpdateLocation request interleaves with a Complete or
   TriggerSOS request on the same trip, the insert of the UpdateLocation
   appends its LocationUpdate row, and its update overwrites the trip's last
   location, only while the trip's status is active. *)
C24_LocationWritesOnlyWhileActive ==
    [][\A s \in Slots :
          (/\ req[s].op = "location"
           /\ Moves(s, "insert", "update") \/ Moves(s, "update", "sms"))
             => \A t \in trips : t.id = req[s].id => t.status = "active"]_vars

\* the positions in the history of trip id, oldest first
HistoryOf(id) == SelectSeq(locationUpdates, LAMBDA l : l.tripId = id)

(* C25: whenever no request is being handled, each trip's last
   latitude/longitude is the latitude/longitude of the LocationUpdate row
   appended last for that trip, or the trip's start latitude/longitude when
   it has no LocationUpdate row. *)
C25_LastLocationIsNewestRow ==
    (\A s \in Slots : req[s].pc \in {"idle", "done"})
       => \A t \in trips :
             LET h == HistoryOf(t.id)
             IN  IF h = <<>>
                 THEN /\ t.lastLatitude = t.startLatitude
                      /\ t.lastLongitude = t.startLongitude
                 ELSE /\ t.lastLatitude = h[Len(h)].latitude
                      /\ t.lastLongitude = h[Len(h)].longitude

(* C26: in every reachable state a trip has an end time exactly when its
   status is completed. *)
C26_EndTimeIffCompleted ==
    \A t \in trips : t.endTime # NoTime <=> t.status = "completed"

(* C27: however a Start, UpdateLocation, Complete or TriggerSOS request of a
   signed-in user interleaves with a Delete of the contact involved, the
   request is answered with its success response or with 400 or 404. *)
C27_TripRequestSurvivesContactDelete ==
    \A s \in Slots :
        (/\ req[s].pc = "done" /\ req[s].session \in Users
         /\ req[s].op \in {"start", "location", "complete", "sos"})
           => req[s].status \in {200, 201, 400, 404}

(* C28: in the home screen activeTrip goes from null to a trip only when
   startTrip or the reload of the active trip (checkActiveTrip) takes its
   response; so once completeTrip has set it to null, an updateTripLocation
   call that was in flight does not set it back. *)
C28_ActiveTripStaysNullAfterComplete ==
    [][(home.activeTrip = <<>> /\ home'.activeTrip # <<>>)
          => /\ home.user.op \in {"startTrip", "init"}
             /\ req[2].pc = "done" /\ req'[2].pc = "idle"]_vars

(* C29: in the home screen at most one location-update interval is live, and
   one is live only while the locally held trip has status active, so none
   keeps issuing PUT /api/trips/:id/location after a successful triggerSOS or
   completeTrip. *)
C29_LocationTimerOnlyWhileActive ==
    /\ Cardinality(home.timers) <= 1
    /\ home.timers # {} =>
          /\ home.activeTrip # <<>>
          /\ home.activeTrip[1].status = "active"

(* C30: in TripProvider elapsedTime is never negative and at most one interval
   timer is live; and once the timer effect of the latest setActiveTrip has
   run, an activeTrip that is null or whose startTime is empty or not a date
   leaves no interval timer live and elapsedTime at 0. *)
C30_ProviderTimerIsSound ==
    /\ tripProvider.elapsedTime >= 0
    /\ Cardinality(tripProvider.timers) <= 1
    /\ (/\ ~tripProvider.pending
        /\ \/ tripProvider.activeTrip = <<>>
           \/ ParseDate(tripProvider.activeTrip[1].startTime) = <<>>)
          => /\ tripProvider.timers = {}
             /\ tripProvider.elapsedTime = 0

\* a trip whose startTime is not a date has replaced a trip with a running
\* timer, and the effect has run: the third interval was never created
C30_TimerClearedForUnparseableStart ==
    /\ ~tripProvider.pending
    /\ tripProvider.activeTrip # <<>>
    /\ tripProvider.activeTrip[1].startTime = "soon"
    /\ tripProvider.nextTimer = 3
    /\ tripProvider.timers = {}
    /\ tripProvider.elapsedTime = 0

====
